---- MODULE Spec2Model ----
(***************************************************************************)
(* MemeSync: the job orchestrator of src/src/server.js, the segment        *)
(* expander of src/src/index.js and the audio retrieval of                 *)
(* src/src/renderVideo.js, as state machines.                              *)
(*                                                                         *)
(* Spec          the orchestrator: activeJobs, the global Logger.info and  *)
(*               the pipeline executions that log through it               *)
(* SpecExpand    one job's asset match and segment expansion               *)
(* SpecRetrieval the audio download of the video renderer                  *)
(* SpecReview    the orchestrator with detailed jobs only, stages settling *)
(* SpecCatch     the catch blocks of the three pipeline wrappers           *)
(* SpecBudget    one pipeline wrapper and its timer, with a clock          *)
(* SpecStream    quick jobs, cleanup and a subscriber of /api/stream       *)
(* SpecRequest   the validation of POST /api/generate                      *)
(***************************************************************************)
EXTENDS Integers, Sequences, FiniteSets, TLC

\* ------------------------------------------------------------------ bounds
MaxJobs == 2
MaxExecs == 3
MaxRunning == 2
MaxSegs == 1
MaxCleanups == 1
MaxAssets == 2
MaxDuration == 13
MaxCalls == 2
MaxMinutes == 101
MaxLines == 2
MaxResults == 5
MaxSearches == 5
MaxClock == 4
MaxRequests == 3
MaxPipelines == 3

VARIABLES
    activeJobs,     \* server.js:49    jobId -> job record (NoJob: not in the map)
    loggerInfo,     \* logger.js:15    the current Logger.info: the chain of installed hooks
    execs,          \* one record per call of generate*Async / continueDetailedGeneration
    nextJob,        \* the next job id (Date.now() of the next accepted request)
    nextExec,       \* the next execution id
    regenInflight,  \* jobId -> a regenerate-keywords request is awaiting extractKeywords
    cleanups,       \* the number of cleanup requests served
    stream,         \* server.js:145  the subscriber of GET /api/stream/:jobId
    transcriptKeywords, \* index.js:92 keywordData: the keyword assignments of one job
    matchedMemes,   \* index.js:119   the assignments with their meme URL
    expandedMemes,  \* index.js:699   the slots expandLongSegments has pushed
    xpc,            \* where the job is: "match", "expand", "done", "failed", "off"
    xidx,           \* index.js:703   the matched meme the loop is at
    additionalMemes, \* index.js:731  what getAdditionalMemesForKeyword returned last
    rpc,            \* where downloadAudio is
    mediaDir,       \* renderVideo.js:25  the files of the media directory
    tempAudioPath,  \* renderVideo.js:58, 146  the downloaded file in work
    urlValid,       \* renderVideo.js:136  what ytdl.validateURL says of the URL
    infoAttempt,    \* renderVideo.js:725  attempt of getVideoInfoWithRetry
    configIndex,    \* renderVideo.js:661  configIndex + 1 of downloadAudioWithRetry
    attempt,        \* renderVideo.js:665  attempt of downloadAudioWithRetry
    failedAttempts, \* the strategy and configuration pairs that have failed in this call
    calls,          \* the number of calls of downloadAudio
    timeout,        \* renderVideo.js:690  seconds of the timer of the attempt in work
    attemptsMade,   \* renderVideo.js:665  attempts downloadAudioWithRetry started in this call
    thrownBy,       \* the wrapper whose try block threw: "youtube", "script", "continue"
    errorWords,     \* server.js:499  error.message, by the looked-for words it includes
    jobMessage,     \* server.js:510  the message updateJob('error', ...) stores
    cpc,            \* the catch block: "thrown", "caught", "off"
    wrapper,        \* the wrapper that runs: "youtube", "script", "continue"
    clock,          \* whole minutes since the wrapper was called
    race,           \* the wrapper's await: "pending", "timeout", "returned", "threw"
    timerFired,     \* server.js:420  the setTimeout callback has run
    budgetJob,      \* status and message of the wrapper's job
    request,        \* server.js:58  the body of a POST /api/generate
    response,       \* the HTTP status answered: 0 (none yet), 200, 400
    allocated,      \* server.js:98  a job was stored and its pipeline started
    statusReply,    \* server.js:133  the last answer of GET /api/status/:jobId
    transcriptLines, \* keywordExtractor.js:27  the argument of extractKeywords
    results,        \* keywordExtractor.js:30  the assignments pushed so far
    kidx,           \* keywordExtractor.js:32  the line the loop is at
    kpc,            \* extractKeywords: "off", "extract", "done"
    openai,         \* keywordExtractor.js:6  whether the OpenAI client was built
    database,       \* puppeteerScraper.js:19  the database of searchMemesForKeywords
    memeUrls,       \* puppeteerScraper.js:446  the URLs the result page shows, in order
    keywordCount,   \* puppeteerScraper.js:56  keywords.length of the call
    selectedUrls,   \* puppeteerScraper.js:53  the URLs selected so far in this call
    memeUrl,        \* puppeteerScraper.js:67  the URL the last single search returned
    retryCount,     \* puppeteerScraper.js:64  searches made for the current keyword
    sidx,           \* puppeteerScraper.js:56  the keyword the loop is at
    spc,            \* searchMemesForKeywords: "off", "search", "found", "done", "failed"
    now,            \* server.js:95  Date.now(), in milliseconds
    jobIds,         \* server.js:129  the jobId answered to each accepted request, in order
    jobStore,       \* server.js:98  activeJobs by id: the request whose job the entry holds
    audioFile,      \* renderVideo.js:27  media/audio.m4a: the job whose audio it holds
    outputFile,     \* renderVideo.js:28  media/output.mp4: the video it holds
    audioUsed,      \* renderVideo.js:209  per job, the audio its createVideo read
    fpc             \* per job: "off", "fetch", "compose", "complete", "done"

jobVars == <<activeJobs, loggerInfo, execs, nextJob, nextExec, regenInflight, cleanups,
             stream>>
expandVars == <<transcriptKeywords, matchedMemes, expandedMemes, xpc, xidx,
                additionalMemes>>
retrievalVars == <<rpc, mediaDir, tempAudioPath, urlValid, infoAttempt, configIndex,
                   attempt, failedAttempts, calls, timeout, attemptsMade>>
catchVars == <<thrownBy, errorWords, jobMessage, cpc>>
budgetVars == <<wrapper, clock, race, timerFired, budgetJob>>
requestVars == <<request, response, allocated, statusReply>>
extractVars == <<transcriptLines, results, kidx, kpc, openai>>
searchVars == <<database, memeUrls, keywordCount, selectedUrls, memeUrl, retryCount,
                sidx, spc>>
clockVars == <<now, jobIds, jobStore>>
fileVars == <<audioFile, outputFile, audioUsed, fpc>>
vars == <<jobVars, expandVars, retrievalVars, catchVars, budgetVars, requestVars,
         extractVars, searchVars, clockVars, fileVars>>

JobIds == 1..MaxJobs
ExecIds == 1..MaxExecs

\* ------------------------------------------------------------- job records
\* A job object of the activeJobs map. Fields a JS object does not have are
\* "absent"; paused says that the pause data (transcript, keywordData,
\* audioPath, keywords, database) is stored on the object; reviewedKeywords
\* says that the field is set (nothing reads its content); captured says that
\* this very object is the one a pending regenerate-keywords request holds.
NoJob ==
    [status |-> "absent", progress |-> 0, message |-> "absent",
     outputPath |-> "absent", startTime |-> "absent", endTime |-> "absent",
     mode |-> "absent", paused |-> FALSE, keywordData |-> <<>>,
     keywords |-> <<>>, reviewedKeywords |-> FALSE, captured |-> FALSE]

InitialJob(mode) ==
    [NoJob EXCEPT !.status = "started", !.progress = 0,
                  !.message = "Initializing...", !.startTime = "created",
                  !.mode = mode]

EndTimeOf(status) ==
    IF status \in {"completed", "error"} THEN "set" ELSE "null"

\* updateJob of generateVideoAsync and generateScriptVideoAsync: the map entry
\* is replaced by a fresh six-field object; only startTime is carried over.
UpdateJobReplace(jobs, j, status, progress, message, outputPath) ==
    [jobs EXCEPT ![j] =
        [NoJob EXCEPT !.status = status, !.progress = progress,
                      !.message = message, !.outputPath = outputPath,
                      !.startTime = IF jobs[j].startTime = "absent"
                                    THEN "updated" ELSE jobs[j].startTime,
                      !.endTime = EndTimeOf(status)]]

\* updateJob of continueDetailedGeneration: a fresh object that spreads the
\* current one (nothing, when the job is no longer in the map).
UpdateJobSpread(jobs, j, status, progress, message, outputPath) ==
    [jobs EXCEPT ![j] =
        [jobs[j] EXCEPT !.status = status, !.progress = progress,
                        !.message = message, !.outputPath = outputPath,
                        !.endTime = EndTimeOf(status),
                        !.captured = FALSE]]

UpdateJob(kind, jobs, j, status, progress, message, outputPath) ==
    IF kind = "continue"
    THEN UpdateJobSpread(jobs, j, status, progress, message, outputPath)
    ELSE UpdateJobReplace(jobs, j, status, progress, message, outputPath)

\* ------------------------------------------------- the Logger.info hooks
\* The log lines of the pipelines that some hook matches.
Lines == {"Step 1/6", "Downloading audio", "Fetching video", "Step 2/6",
          "Step 3/6", "Step 4/6", "Step 5/6", "Step 6/6",
          "Step 1/7", "Step 2/7", "Step 3/7", "Step 4/7", "Step 5/7",
          "Step 6/7", "Step 7/7", "other"}

\* The if/else-if table of the hook of generateVideoAsync.
YoutubeTable(line) ==
    CASE line = "Step 1/6" -> [hit |-> TRUE, progress |-> 15, message |-> "Downloading audio..."]
      [] line = "Step 2/6" -> [hit |-> TRUE, progress |-> 30, message |-> "Generating transcript..."]
      [] line = "Step 3/6" -> [hit |-> TRUE, progress |-> 45, message |-> "Extracting keywords..."]
      [] line = "Step 4/6" -> [hit |-> TRUE, progress |-> 60, message |-> "Searching for memes..."]
      [] line = "Step 5/6" -> [hit |-> TRUE, progress |-> 80, message |-> "Rendering slides..."]
      [] line = "Step 6/6" -> [hit |-> TRUE, progress |-> 90, message |-> "Creating final video..."]
      [] line = "Downloading audio" -> [hit |-> TRUE, progress |-> 10, message |-> "Downloading audio..."]
      [] line = "Fetching video" -> [hit |-> TRUE, progress |-> 8, message |-> "Fetching video info..."]
      [] OTHER -> [hit |-> FALSE, progress |-> 0, message |-> "absent"]

\* The table of the hook of generateScriptVideoAsync.
ScriptTable(line) ==
    CASE line = "Step 1/7" -> [hit |-> TRUE, progress |-> 15, message |-> "Generating speech..."]
      [] line = "Step 2/7" -> [hit |-> TRUE, progress |-> 25, message |-> "Downloading background music..."]
      [] line = "Step 3/7" -> [hit |-> TRUE, progress |-> 35, message |-> "Transcribing speech..."]
      [] line = "Step 4/7" -> [hit |-> TRUE, progress |-> 50, message |-> "Extracting keywords..."]
      [] line = "Step 5/7" -> [hit |-> TRUE, progress |-> 65, message |-> "Searching for memes..."]
      [] line = "Step 6/7" -> [hit |-> TRUE, progress |-> 85, message |-> "Rendering slides..."]
      [] line = "Step 7/7" -> [hit |-> TRUE, progress |-> 90, message |-> "Creating final video with mixed audio..."]
      [] OTHER -> [hit |-> FALSE, progress |-> 0, message |-> "absent"]

\* The table of the hook of continueDetailedGeneration.
ContinueTable(line) ==
    CASE line = "Step 4/6" -> [hit |-> TRUE, progress |-> 60, message |-> "Searching for memes..."]
      [] line = "Step 5/6" -> [hit |-> TRUE, progress |-> 80, message |-> "Rendering slides..."]
      [] line = "Step 6/6" -> [hit |-> TRUE, progress |-> 90, message |-> "Creating final video..."]
      [] OTHER -> [hit |-> FALSE, progress |-> 0, message |-> "absent"]

HookTable(kind, line) ==
    CASE kind = "youtube" -> YoutubeTable(line)
      [] kind = "script" -> ScriptTable(line)
      [] OTHER -> ContinueTable(line)

\* One hook's own update, after it has called the function it replaced.
HookUpdate(h, line, jobs) ==
    LET t == HookTable(h.kind, line)
    IN  IF t.hit
        THEN UpdateJob(h.kind, jobs, h.job, "running", t.progress, t.message, "null")
        ELSE jobs

\* Logger.info(line) with the global Logger.info being `chain`: a hook is
\* [job, kind]; the head of the chain is the hook installed last, and the
\* function it replaced (its originalInfo) is the rest of the chain. Each hook
\* first calls its originalInfo, then updates its own job.
RECURSIVE CallInfo(_, _, _)
CallInfo(chain, line, jobs) ==
    IF chain = <<>>
    THEN jobs
    ELSE HookUpdate(Head(chain), line, CallInfo(Tail(chain), line, jobs))

\* ------------------------------------------------------------ the stream
\* The response of GET /api/stream/:jobId: the job it polls (0: nobody has
\* subscribed), whether its next sendUpdate is scheduled (open), the status
\* of the last snapshot written to it, whether the close handler has ended
\* the response (ended), and whether a snapshot was written after that
\* (lateWrite).
NoStream ==
    [job |-> 0, open |-> FALSE, sent |-> "none", ended |-> FALSE, lateWrite |-> FALSE]

\* sendUpdate: the job's snapshot is written if the job is in the map, and the
\* response is ended on a completed or error snapshot; otherwise the next
\* call is scheduled. Nothing looks at whether the response has ended.
SendUpdateTo(st, jobs) ==
    IF jobs[st.job].status = "absent"
    THEN st
    ELSE [st EXCEPT !.sent = jobs[st.job].status,
                    !.open = jobs[st.job].status \notin {"completed", "error"},
                    !.lateWrite = st.lateWrite \/ st.ended]

\* ------------------------------------------------------------- executions
NoExec ==
    [job |-> 0, kind |-> "none", detailed |-> FALSE, pc |-> "free",
     settled |-> FALSE, originalInfo |-> <<>>, keywordData |-> <<>>]

\* The line an execution logs next, by its position in the generator.
LineAt(pc) ==
    CASE pc = "s1" -> "Step 1/6"
      [] pc = "da" -> "Downloading audio"
      [] pc = "fv" -> "Fetching video"
      [] pc = "s2" -> "Step 2/6"
      [] pc = "s3" -> "Step 3/6"
      [] pc = "s4" -> "Step 4/6"
      [] pc = "s5" -> "Step 5/6"
      [] pc = "s6" -> "Step 6/6"
      [] pc = "t1" -> "Step 1/7"
      [] pc = "t2" -> "Step 2/7"
      [] pc = "t3" -> "Step 3/7"
      [] pc = "t4" -> "Step 4/7"
      [] pc = "t5" -> "Step 5/7"
      [] pc = "t6" -> "Step 6/7"
      [] pc = "t7" -> "Step 7/7"
      [] OTHER -> "other"

LogPcs == {"s1", "da", "fv", "s2", "s3", "s4", "s5", "s6",
           "t1", "t2", "t3", "t4", "t5", "t6", "t7"}

\* The positions that may follow pc once its line is logged. After
\* "Downloading audio" either yt-dlp succeeds or downloadWithYtdlCore logs
\* "Fetching video"; after "Step 3/6" the detailed generator returns the pause
\* data and the others go on to the meme search.
NextPcs(pc, detailed) ==
    CASE pc = "s1" -> {"da"}
      [] pc = "da" -> {"fv", "s2"}
      [] pc = "fv" -> {"s2"}
      [] pc = "s2" -> {"s3"}
      [] pc = "s3" -> IF detailed THEN {"pause"} ELSE {"s4"}
      [] pc = "s4" -> {"s5"}
      [] pc = "s5" -> {"s6"}
      [] pc = "s6" -> {"ret"}
      [] pc = "t1" -> {"t2"}
      [] pc = "t2" -> {"t3"}
      [] pc = "t3" -> {"t4"}
      [] pc = "t4" -> {"t5"}
      [] pc = "t5" -> {"t6"}
      [] pc = "t6" -> {"t7"}
      [] pc = "t7" -> {"ret"}
      [] OTHER -> {}

Running(e) == execs[e].pc # "free"

\* A new execution may start: bounded in total and in how many run at once.
CanStart ==
    /\ nextExec <= MaxExecs
    /\ Cardinality({e \in ExecIds : Running(e)}) < MaxRunning

\* The user message of the catch blocks: a timeout is reworded, any other
\* stage failure is passed on.
TimeoutMessage == "Generation timed out. Try a shorter video or time range."
ScriptTimeoutMessage == "Generation timed out. Try shorter script text."
StageMessage == "stage failure"

\* --------------------------------------------------------- catch blocks
\* The words the catch blocks look for in error.message.
CatchWords ==
    {"functions", "player", "private", "unavailable", "timeout", "network",
     "ENOTFOUND", "ELEVENLABS_API_KEY", "Failed to generate speech",
     "Failed to download music"}

Includes(words, looked) == words \cap looked # {}

Fixed(text) == [verbatim |-> FALSE, text |-> text]

\* The catch blocks without their timeout branch.
UserMessageNoTimeout(kind, words) ==
    IF Includes(words, {"network", "ENOTFOUND"})
    THEN Fixed("Network error. Please check your internet connection.")
    ELSE [verbatim |-> TRUE, text |-> "error.message"]

\* userMessage of the catch blocks: error.message itself unless it includes
\* a word of the wrapper's else-if chain, whose first hit gives a fixed text.
UserMessage(kind, words) ==
    CASE kind = "youtube" ->
           IF Includes(words, {"functions", "player"})
           THEN Fixed("YouTube video extraction failed. Try a different video or try again later.")
           ELSE IF Includes(words, {"private", "unavailable"})
           THEN Fixed("This video is private or unavailable. Please use a public video.")
           ELSE IF Includes(words, {"timeout"})
           THEN Fixed(TimeoutMessage)
           ELSE IF Includes(words, {"network", "ENOTFOUND"})
           THEN Fixed("Network error. Please check your internet connection.")
           ELSE [verbatim |-> TRUE, text |-> "error.message"]
      [] kind = "script" ->
           IF Includes(words, {"ELEVENLABS_API_KEY"})
           THEN Fixed("ElevenLabs API key is missing or invalid. Please check configuration.")
           ELSE IF Includes(words, {"Failed to generate speech"})
           THEN Fixed("Text-to-speech generation failed. Please try again or use shorter text.")
           ELSE IF Includes(words, {"Failed to download music"})
           THEN Fixed("Background music download failed. Please try a different mood or try again.")
           ELSE IF Includes(words, {"timeout"})
           THEN Fixed(ScriptTimeoutMessage)
           ELSE IF Includes(words, {"network", "ENOTFOUND"})
           THEN Fixed("Network error. Please check your internet connection.")
           ELSE [verbatim |-> TRUE, text |-> "error.message"]
      [] OTHER ->
           IF Includes(words, {"timeout"})
           THEN Fixed(TimeoutMessage)
           ELSE IF Includes(words, {"network", "ENOTFOUND"})
           THEN Fixed("Network error. Please check your internet connection.")
           ELSE [verbatim |-> TRUE, text |-> "error.message"]

CatchOff ==
    /\ thrownBy = "none"
    /\ errorWords = {}
    /\ jobMessage = Fixed("Initializing...")
    /\ cpc = "off"

\* ------------------------------------------------------------- requests
\* A time string "MM:SS" or "HH:MM:SS" is the sequence of its numbers; the
\* empty sequence is a field that is missing or empty.
TimeStrings == {<<>>, <<0, 0>>, <<0, 30>>, <<1, 0>>, <<0, 0, 30>>}

\* The script text: missing, whitespace only, shorter than ten characters
\* once trimmed, or long enough.
ScriptTexts == {"absent", "blank", "short", "ok"}

TimeToSeconds(timeStr) ==
    IF timeStr = <<>> THEN 0
    ELSE IF Len(timeStr) = 2 THEN timeStr[1] * 60 + timeStr[2]
    ELSE IF Len(timeStr) = 3 THEN timeStr[1] * 3600 + timeStr[2] * 60 + timeStr[3]
    ELSE 0

IsValidTimeRange(startTime, endTime) ==
    IF startTime = <<>> \/ endTime = <<>>
    THEN FALSE
    ELSE /\ TimeToSeconds(startTime) < TimeToSeconds(endTime)
         /\ TimeToSeconds(startTime) >= 0
         /\ TimeToSeconds(endTime) > 0

NoRequest == [youtubeUrl |-> FALSE, scriptText |-> "absent", startTime |-> <<>>, endTime |-> <<>>]

\* No GET /api/status/:jobId has been answered.
NoReply == [job |-> 0, code |-> 0, status |-> "none", progress |-> 0]

RequestOff ==
    /\ request = NoRequest
    /\ response = 0
    /\ allocated = FALSE
    /\ statusReply = NoReply

\* extractKeywords is not running.
ExtractOff ==
    /\ transcriptLines = <<>>
    /\ results = <<>>
    /\ kidx = 0
    /\ kpc = "off"
    /\ openai = FALSE

\* searchMemesForKeywords is not running.
SearchOff ==
    /\ database = "none"
    /\ memeUrls = <<>>
    /\ keywordCount = 0
    /\ selectedUrls = <<>>
    /\ memeUrl = "none"
    /\ retryCount = 0
    /\ sidx = 0
    /\ spc = "off"

\* No request was accepted on the millisecond clock.
ClockOff ==
    /\ now = 0
    /\ jobIds = <<>>
    /\ jobStore = <<>>

\* No pipeline touches the renderer's files.
FilesOff ==
    /\ audioFile = 0
    /\ outputFile = [job |-> 0, audio |-> 0]
    /\ audioUsed = <<>>
    /\ fpc = <<>>

\* isScriptMode of the handler.
IsScriptMode(req) == req.scriptText \in {"short", "ok"}

\* The validation of POST /api/generate: what it answers with 400.
Rejected(req) ==
    IF IsScriptMode(req)
    THEN req.scriptText = "short"
    ELSE ~req.youtubeUrl

\* ---------------------------------------------------- wall-clock timers
YoutubeTimeoutMs == 6000000
ScriptTimeoutMs == 600000

\* Whether the wrapper races its generator against a timer, and the timer's
\* delay in minutes; continueDetailedGeneration awaits its generator alone.
HasTimer(kind) == kind \in {"youtube", "script"}

TimerMinutes(kind) ==
    IF kind = "script"
    THEN ScriptTimeoutMs \div 60000
    ELSE YoutubeTimeoutMs \div 60000

BudgetOff ==
    /\ wrapper = "none"
    /\ clock = 0
    /\ race = "off"
    /\ timerFired = FALSE
    /\ budgetJob = [status |-> "absent", message |-> "absent"]

\* ------------------------------------------------------ audio retrieval
maxRetries == 3
NumDownloadConfigs == 3

\* The files downloadAudio may leave in the media directory: the file yt-dlp
\* writes, the file the ytdl-core strategy writes, and the processed audio.
TempNames == {"temp_audio.wav", "temp_audio.webm"}
FileNames == TempNames \cup {"audio.m4a"}

Strategies == {<<"yt-dlp", 1>>} \cup {<<"ytdl-core", c>> : c \in 1..NumDownloadConfigs}

EmptyDir == [f \in FileNames |-> "none"]

ExpandOff ==
    /\ transcriptKeywords = <<>>
    /\ matchedMemes = <<>>
    /\ expandedMemes = <<>>
    /\ xpc = "off"
    /\ xidx = 0
    /\ additionalMemes = <<>>

JobsOff ==
    /\ activeJobs = [j \in JobIds |-> NoJob]
    /\ loggerInfo = <<>>
    /\ execs = [e \in ExecIds |-> NoExec]
    /\ nextJob = 1
    /\ nextExec = 1
    /\ regenInflight = [j \in JobIds |-> FALSE]
    /\ cleanups = 0
    /\ stream = NoStream

RetrievalOff ==
    /\ rpc = "off"
    /\ mediaDir = EmptyDir
    /\ tempAudioPath = "none"
    /\ urlValid = TRUE
    /\ infoAttempt = 0
    /\ configIndex = 0
    /\ attempt = 0
    /\ failedAttempts = {}
    /\ calls = 0
    /\ timeout = 0
    /\ attemptsMade = 0

InitRetrieval ==
    /\ JobsOff
    /\ CatchOff
    /\ BudgetOff
    /\ RequestOff
    /\ ExtractOff
    /\ SearchOff
    /\ ClockOff
    /\ FilesOff
    /\ ExpandOff
    /\ rpc = "idle"
    /\ mediaDir = EmptyDir
    /\ tempAudioPath = "none"
    /\ urlValid = TRUE
    /\ infoAttempt = 0
    /\ configIndex = 0
    /\ attempt = 0
    /\ failedAttempts = {}
    /\ calls = 0
    /\ timeout = 0
    /\ attemptsMade = 0

Returned == rpc \in {"idle", "done", "failed"}

\* The timer of an attempt with the seconds its comment gives: 60, 90, 120.
AttemptTimeoutFromSixty(a) == 60 + (a - 1) * 30

\* The seconds after which the timer of attempt number a of a configuration
\* destroys the streams and rejects: (60 + attempt * 30) * 1000 ms.
AttemptTimeout(a) == 60 + a * 30

\* downloadAudio is called: initialize(), then the yt-dlp strategy is next.
DownloadAudio ==
    /\ Returned
    /\ calls < MaxCalls
    /\ calls' = calls + 1
    /\ rpc' = "yt-dlp"
    /\ urlValid' \in BOOLEAN
    /\ tempAudioPath' = "none"
    /\ infoAttempt' = 0
    /\ configIndex' = 0
    /\ attempt' = 0
    /\ failedAttempts' = {}
    /\ timeout' = 0
    /\ attemptsMade' = 0
    /\ UNCHANGED <<mediaDir, jobVars, expandVars, catchVars, budgetVars, requestVars, extractVars, searchVars, clockVars, fileVars>>

\* downloadWithYtDlp: the tool writes its file and the first temp_audio.* of
\* the directory listing is taken, or the tool fails and downloadAudio falls
\* back to ytdl-core.
DownloadWithYtDlp ==
    /\ rpc = "yt-dlp"
    /\ \/ /\ mediaDir' = [mediaDir EXCEPT !["temp_audio.wav"] = "complete"]
          /\ tempAudioPath' \in {f \in TempNames : mediaDir'[f] # "none"}
          /\ rpc' = "process"
          /\ UNCHANGED failedAttempts
       \/ /\ rpc' = "validate"
          /\ failedAttempts' = failedAttempts \cup {<<"yt-dlp", 1>>}
          /\ UNCHANGED <<mediaDir, tempAudioPath>>
    /\ UNCHANGED <<urlValid, infoAttempt, configIndex, attempt, calls, timeout, attemptsMade, jobVars, expandVars, catchVars, budgetVars, requestVars, extractVars, searchVars, clockVars, fileVars>>

\* processAudio without the unlink of the temporary file that follows it.
ProcessAudioKeepsTemp ==
    /\ rpc \in {"process", "process-core"}
    /\ \/ /\ mediaDir' = [mediaDir EXCEPT !["audio.m4a"] = "complete"]
          /\ rpc' = "done"
          /\ UNCHANGED failedAttempts
       \/ /\ rpc = "process"
          /\ rpc' = "validate"
          /\ failedAttempts' = failedAttempts \cup {<<"yt-dlp", 1>>}
          /\ UNCHANGED mediaDir
       \/ /\ rpc = "process-core"
          /\ rpc' = "failed"
          /\ UNCHANGED <<mediaDir, failedAttempts>>
    /\ UNCHANGED <<tempAudioPath, urlValid, infoAttempt, configIndex, attempt, calls,
                   timeout, attemptsMade, jobVars, expandVars, catchVars, budgetVars, requestVars, extractVars, searchVars, clockVars, fileVars>>

\* processAudio and the unlink of the temporary file, in downloadAudio after
\* yt-dlp (a failure falls back to ytdl-core) and in downloadWithYtdlCore (a
\* failure fails the call).
ProcessAudio ==
    /\ rpc \in {"process", "process-core"}
    /\ \/ /\ mediaDir' = [mediaDir EXCEPT !["audio.m4a"] = "complete",
                                          ![tempAudioPath] = "none"]
          /\ rpc' = "done"
          /\ UNCHANGED failedAttempts
       \/ /\ rpc = "process"
          /\ rpc' = "validate"
          /\ failedAttempts' = failedAttempts \cup {<<"yt-dlp", 1>>}
          /\ UNCHANGED mediaDir
       \/ /\ rpc = "process-core"
          /\ rpc' = "failed"
          /\ UNCHANGED <<mediaDir, failedAttempts>>
    /\ UNCHANGED <<tempAudioPath, urlValid, infoAttempt, configIndex, attempt, calls,
                   timeout, attemptsMade, jobVars, expandVars, catchVars, budgetVars, requestVars, extractVars, searchVars, clockVars, fileVars>>

\* downloadWithYtdlCore: ytdl.validateURL, an invalid URL fails the call.
ValidateURL ==
    /\ rpc = "validate"
    /\ IF urlValid
       THEN rpc' = "info" /\ infoAttempt' = 1
       ELSE rpc' = "failed" /\ UNCHANGED infoAttempt
    /\ UNCHANGED <<mediaDir, tempAudioPath, urlValid, configIndex, attempt, failedAttempts,
                   calls, timeout, attemptsMade, jobVars, expandVars, catchVars, budgetVars, requestVars, extractVars, searchVars, clockVars, fileVars>>

\* One attempt of getVideoInfoWithRetry; the last failed one fails the call.
GetVideoInfo ==
    /\ rpc = "info"
    /\ \/ /\ rpc' = "download"
          /\ configIndex' = 1
          /\ attempt' = 1
          /\ timeout' = AttemptTimeout(1)
          /\ attemptsMade' = 1
          /\ tempAudioPath' = "temp_audio.webm"
          /\ UNCHANGED infoAttempt
       \/ /\ infoAttempt < maxRetries
          /\ infoAttempt' = infoAttempt + 1
          /\ UNCHANGED <<rpc, configIndex, attempt, tempAudioPath, timeout, attemptsMade>>
       \/ /\ infoAttempt = maxRetries
          /\ rpc' = "failed"
          /\ UNCHANGED <<infoAttempt, configIndex, attempt, tempAudioPath, timeout,
                         attemptsMade>>
    /\ UNCHANGED <<mediaDir, urlValid, failedAttempts, calls, jobVars, expandVars, catchVars, budgetVars, requestVars, extractVars, searchVars, clockVars, fileVars>>

\* downloadAudioWithRetry going to the next configuration on the first failed
\* attempt of a configuration.
DownloadAttemptWithoutRetry ==
    /\ rpc = "download"
    /\ \/ /\ mediaDir' = [mediaDir EXCEPT ![tempAudioPath] = "complete"]
          /\ rpc' = "process-core"
          /\ UNCHANGED <<configIndex, attempt, failedAttempts, timeout, attemptsMade>>
       \/ /\ mediaDir' = [mediaDir EXCEPT ![tempAudioPath] = "partial"]
          /\ failedAttempts' = failedAttempts \cup {<<"ytdl-core", configIndex>>}
          /\ IF configIndex < NumDownloadConfigs
             THEN /\ configIndex' = configIndex + 1
                  /\ attempt' = 1
                  /\ timeout' = AttemptTimeout(1)
                  /\ attemptsMade' = attemptsMade + 1
                  /\ UNCHANGED rpc
             ELSE /\ rpc' = "failed"
                  /\ UNCHANGED <<configIndex, attempt, timeout, attemptsMade>>
    /\ UNCHANGED <<tempAudioPath, urlValid, infoAttempt, calls, jobVars, expandVars, catchVars, budgetVars, requestVars, extractVars, searchVars, clockVars, fileVars>>

\* One attempt of downloadAudioWithRetry: createWriteStream opens the output
\* file anew; the attempt finishes the file, or fails and leaves what it wrote.
DownloadAttempt ==
    /\ rpc = "download"
    /\ \/ /\ mediaDir' = [mediaDir EXCEPT ![tempAudioPath] = "complete"]
          /\ rpc' = "process-core"
          /\ UNCHANGED <<configIndex, attempt, failedAttempts, timeout, attemptsMade>>
       \/ /\ mediaDir' = [mediaDir EXCEPT ![tempAudioPath] = "partial"]
          /\ IF attempt < maxRetries
             THEN /\ attempt' = attempt + 1
                  /\ timeout' = AttemptTimeout(attempt + 1)
                  /\ attemptsMade' = attemptsMade + 1
                  /\ UNCHANGED <<rpc, configIndex, failedAttempts>>
             ELSE /\ failedAttempts' = failedAttempts \cup {<<"ytdl-core", configIndex>>}
                  /\ IF configIndex < NumDownloadConfigs
                     THEN /\ configIndex' = configIndex + 1
                          /\ attempt' = 1
                          /\ timeout' = AttemptTimeout(1)
                          /\ attemptsMade' = attemptsMade + 1
                          /\ UNCHANGED rpc
                     ELSE /\ rpc' = "failed"
                          /\ UNCHANGED <<configIndex, attempt, timeout, attemptsMade>>
    /\ UNCHANGED <<tempAudioPath, urlValid, infoAttempt, calls, jobVars, expandVars, catchVars, budgetVars, requestVars, extractVars, searchVars, clockVars, fileVars>>

\* VideoRenderer.cleanup between two calls: every file but output.mp4 goes.
CleanupMedia ==
    /\ Returned
    /\ mediaDir # EmptyDir
    /\ mediaDir' = EmptyDir
    /\ UNCHANGED <<rpc, tempAudioPath, urlValid, infoAttempt, configIndex, attempt,
                   failedAttempts, calls, timeout, attemptsMade, jobVars, expandVars, catchVars, budgetVars, requestVars, extractVars, searchVars, clockVars, fileVars>>

NextRetrieval ==
    \/ DownloadAudio
    \/ DownloadWithYtDlp
    \/ ProcessAudio
    \/ ValidateURL
    \/ GetVideoInfo
    \/ DownloadAttempt
    \/ CleanupMedia

SpecRetrieval == InitRetrieval /\ [][NextRetrieval]_vars

\* The call with every awaited stage settling: an attempt of the download
\* ends by its finish, an error or its own timer; the tools and the info
\* request return.
SpecRetrievalFair ==
    /\ SpecRetrieval
    /\ WF_vars(DownloadWithYtDlp)
    /\ WF_vars(ProcessAudio)
    /\ WF_vars(ValidateURL)
    /\ WF_vars(GetVideoInfo)
    /\ WF_vars(DownloadAttempt)

\* One wrapper has been called and awaits its generator.
InitBudget ==
    /\ JobsOff
    /\ ExpandOff
    /\ RetrievalOff
    /\ CatchOff
    /\ RequestOff
    /\ ExtractOff
    /\ SearchOff
    /\ ClockOff
    /\ FilesOff
    /\ wrapper \in {"youtube", "script", "continue"}
    /\ clock = 0
    /\ race = "pending"
    /\ timerFired = FALSE
    /\ budgetJob = [status |-> "running", message |-> "Initializing..."]

TimerDue == HasTimer(wrapper) /\ ~timerFired /\ clock = TimerMinutes(wrapper)

\* A minute passes; a timer that is due runs first.
Tick ==
    /\ clock < MaxMinutes
    /\ ~TimerDue
    /\ clock' = clock + 1
    /\ UNCHANGED <<wrapper, race, timerFired, budgetJob, jobVars, expandVars,
                   retrievalVars, catchVars, requestVars, extractVars, searchVars, clockVars, fileVars>>

\* The setTimeout callback rejects with 'Generation timeout after 10
\* minutes': a pending race settles and the catch block fails the job.
TimerFires ==
    /\ TimerDue
    /\ timerFired' = TRUE
    /\ IF race = "pending"
       THEN /\ race' = "timeout"
            /\ budgetJob' = [status |-> "error",
                             message |-> UserMessage(wrapper, {"timeout"}).text]
       ELSE UNCHANGED <<race, budgetJob>>
    /\ UNCHANGED <<wrapper, clock, jobVars, expandVars, retrievalVars, catchVars, requestVars, extractVars, searchVars, clockVars, fileVars>>

\* The generator returns the output path before any timer has fired.
GeneratorReturns ==
    /\ race = "pending"
    /\ race' = "returned"
    /\ budgetJob' = [status |-> "completed", message |-> "Video generated successfully!"]
    /\ UNCHANGED <<wrapper, clock, timerFired, jobVars, expandVars, retrievalVars,
                   catchVars, requestVars, extractVars, searchVars, clockVars, fileVars>>

\* A stage throws before any timer has fired.
GeneratorThrows ==
    /\ race = "pending"
    /\ race' = "threw"
    /\ budgetJob' = [status |-> "error", message |-> StageMessage]
    /\ UNCHANGED <<wrapper, clock, timerFired, jobVars, expandVars, retrievalVars,
                   catchVars, requestVars, extractVars, searchVars, clockVars, fileVars>>

NextBudget ==
    \/ Tick
    \/ TimerFires
    \/ GeneratorReturns
    \/ GeneratorThrows

SpecBudget == InitBudget /\ [][NextBudget]_vars

\* A request body has arrived.
InitRequest ==
    /\ JobsOff
    /\ ExpandOff
    /\ RetrievalOff
    /\ CatchOff
    /\ BudgetOff
    /\ request \in [youtubeUrl : BOOLEAN, scriptText : ScriptTexts,
                    startTime : TimeStrings, endTime : TimeStrings]
    /\ response = 0
    /\ allocated = FALSE
    /\ statusReply = NoReply
    /\ ExtractOff
    /\ SearchOff
    /\ ClockOff
    /\ FilesOff

\* POST /api/generate: 400 for a rejected body, otherwise the job is stored,
\* its pipeline started and the job id answered.
Generate ==
    /\ response = 0
    /\ request # NoRequest
    /\ IF Rejected(request)
       THEN response' = 400 /\ allocated' = FALSE
       ELSE response' = 200 /\ allocated' = TRUE
    /\ UNCHANGED <<request, statusReply, jobVars, expandVars, retrievalVars, catchVars, budgetVars,
                   extractVars, searchVars, clockVars, fileVars>>

NextRequest == Generate

SpecRequest == InitRequest /\ [][NextRequest]_vars

\* --------------------------------------------------- keyword extraction
\* The words of the texts and of the model's answers, with their lengths.
Vocabulary == {"a", "so", "the", "sad", "dancing"}

WordLength(word) ==
    CASE word = "a" -> 1
      [] word = "so" -> 2
      [] word = "the" -> 3
      [] word = "sad" -> 3
      [] OTHER -> 7

\* this.stopwords, as far as the vocabulary goes.
Stopwords == {"a", "the"}

\* scoreWord: 1, plus 3 for an emotion word, plus 1 for more than 5 letters
\* (no word of the vocabulary includes an action or a visual word).
ScoreWord(word) ==
    (IF word = "sad" THEN 4 ELSE 1) + (IF WordLength(word) > 5 THEN 1 ELSE 0)

\* A line's text: its words, or no text at all (line.text is undefined).
Texts ==
    {[defined |-> FALSE, words |-> <<>>],
     [defined |-> TRUE, words |-> <<>>],
     [defined |-> TRUE, words |-> <<"the", "so">>],
     [defined |-> TRUE, words |-> <<"the", "sad">>],
     [defined |-> TRUE, words |-> <<"dancing", "sad">>]}

\* The transcripts of n lines: line i runs from second i - 1 to second i.
Transcripts(n) ==
    {[i \in 1..n |-> [start |-> i - 1, end |-> i, text |-> texts[i]]] :
        texts \in [1..n -> Texts]}

\* What the chat completion may come to: the call throws, the answer has no
\* content, or it has one of some words.
OpenAIAnswers ==
    {[kind |-> "throws", words |-> <<>>],
     [kind |-> "none", words |-> <<>>],
     [kind |-> "content", words |-> <<>>],
     [kind |-> "content", words |-> <<"a">>],
     [kind |-> "content", words |-> <<"sad">>],
     [kind |-> "content", words |-> <<"so", "sad">>]}

\* extractWithOpenAI: the answer if it is one word of more than one letter,
\* otherwise null; a failed call is null too.
ExtractWithOpenAI(answer) ==
    IF /\ answer.kind = "content"
       /\ Len(answer.words) = 1
       /\ WordLength(answer.words[1]) > 1
    THEN answer.words[1]
    ELSE "null"

\* extractWithFallback for a text that is there: the first of the best
\* scored words longer than 2 letters that are no stopwords, 'default'
\* when there is none.
ExtractWithFallback(text) ==
    LET words == SelectSeq(text.words,
                           LAMBDA w : WordLength(w) > 2 /\ w \notin Stopwords)
        best == CHOOSE i \in 1..Len(words) :
                    /\ \A k \in 1..Len(words) : ScoreWord(words[k]) <= ScoreWord(words[i])
                    /\ \A k \in 1..(i - 1) : ScoreWord(words[k]) < ScoreWord(words[i])
    IN  IF words = <<>> THEN "default" ELSE words[best]

\* keyword || 'default'.
OrDefault(keyword) == IF keyword \in {"null", ""} THEN "default" ELSE keyword

\* extractKeywords has been called with a transcript.
InitExtract ==
    /\ JobsOff
    /\ ExpandOff
    /\ RetrievalOff
    /\ CatchOff
    /\ BudgetOff
    /\ RequestOff
    /\ SearchOff
    /\ ClockOff
    /\ FilesOff
    /\ transcriptLines \in UNION {Transcripts(n) : n \in 0..MaxLines}
    /\ results = <<>>
    /\ kidx = 1
    /\ kpc = "extract"
    /\ openai \in BOOLEAN

\* The loop body of extractKeywords with a catch block that pushes nothing.
ExtractKeywordSkipsFailed ==
    /\ kpc = "extract"
    /\ kidx <= Len(transcriptLines)
    /\ LET line == transcriptLines[kidx]
       IN  \E answer \in OpenAIAnswers :
              LET keyword == IF openai THEN ExtractWithOpenAI(answer) ELSE "null"
              IN  IF keyword = "null" /\ ~line.text.defined
                  THEN UNCHANGED results
                  ELSE results' = Append(results,
                          [start |-> line.start, end |-> line.end, text |-> line.text,
                           keyword |-> OrDefault(IF keyword = "null"
                                                 THEN ExtractWithFallback(line.text)
                                                 ELSE keyword)])
    /\ kidx' = kidx + 1
    /\ UNCHANGED <<transcriptLines, kpc, openai, jobVars, expandVars, retrievalVars,
                   catchVars, budgetVars, requestVars, searchVars, clockVars, fileVars>>

\* The loop body of extractKeywords for the next line: the OpenAI keyword
\* when there is a client and its answer is a keyword, otherwise the
\* fallback's; the fallback throws on a text that is not there, and the
\* catch block pushes the line with 'default'.
ExtractKeyword ==
    /\ kpc = "extract"
    /\ kidx <= Len(transcriptLines)
    /\ LET line == transcriptLines[kidx]
       IN  \E answer \in OpenAIAnswers :
              LET keyword == IF openai THEN ExtractWithOpenAI(answer) ELSE "null"
              IN  results' = Append(results,
                      [start |-> line.start, end |-> line.end, text |-> line.text,
                       keyword |-> IF keyword = "null" /\ ~line.text.defined
                                   THEN "default"
                                   ELSE OrDefault(IF keyword = "null"
                                                  THEN ExtractWithFallback(line.text)
                                                  ELSE keyword)])
    /\ kidx' = kidx + 1
    /\ UNCHANGED <<transcriptLines, kpc, openai, jobVars, expandVars, retrievalVars,
                   catchVars, budgetVars, requestVars, searchVars, clockVars, fileVars>>

\* extractKeywords returns the results after the last line.
ExtractReturn ==
    /\ kpc = "extract"
    /\ kidx > Len(transcriptLines)
    /\ kpc' = "done"
    /\ UNCHANGED <<transcriptLines, results, kidx, openai, jobVars, expandVars,
                   retrievalVars, catchVars, budgetVars, requestVars, searchVars, clockVars, fileVars>>

NextExtract ==
    \/ ExtractKeyword
    \/ ExtractReturn

SpecExtract == InitExtract /\ [][NextExtract]_vars

\* A stage has thrown in one of the three wrappers, with any message.
InitCatch ==
    /\ JobsOff
    /\ ExpandOff
    /\ RetrievalOff
    /\ BudgetOff
    /\ RequestOff
    /\ ExtractOff
    /\ SearchOff
    /\ ClockOff
    /\ FilesOff
    /\ thrownBy \in {"youtube", "script", "continue"}
    /\ errorWords \in SUBSET CatchWords
    /\ jobMessage = Fixed("Initializing...")
    /\ cpc = "thrown"

\* The catch block: updateJob('error', 0, userMessage, null).
CatchError ==
    /\ cpc = "thrown"
    /\ jobMessage' = UserMessage(thrownBy, errorWords)
    /\ cpc' = "caught"
    /\ UNCHANGED <<thrownBy, errorWords, jobVars, expandVars, retrievalVars, budgetVars, requestVars, extractVars, searchVars, clockVars, fileVars>>

NextCatch == CatchError

SpecCatch == InitCatch /\ [][NextCatch]_vars

\* ------------------------------------------------------- asset matching
Keywords == {"k1", "k2"}

\* The URLs the meme site shows for a keyword (memeUrls of searchSingleKeyword).
Pool(keyword) == IF keyword = "k1" THEN {"u1", "u2", "u3"} ELSE {"u3", "u4"}

Range(seq) == {seq[i] : i \in 1..Len(seq)}

\* searchSingleKeyword: one of the URLs not selected yet if there is any,
\* otherwise any URL of the keyword.
UrlsToChooseFrom(keyword, selected) ==
    LET uniqueUrls == Pool(keyword) \ Range(selected)
    IN  IF uniqueUrls # {} THEN uniqueUrls ELSE Pool(keyword)

\* searchMemesForKeywords: the lists of URLs one call may return for
\* `keywords`, selected starting empty in every call.
RECURSIVE SearchFrom(_, _)
SearchFrom(keywords, selected) ==
    IF keywords = <<>>
    THEN {<<>>}
    ELSE UNION {{<<u>> \o rest : rest \in SearchFrom(Tail(keywords), Append(selected, u))} :
                  u \in UrlsToChooseFrom(Head(keywords), selected)}

SearchMemesForKeywords(keywords) == SearchFrom(keywords, <<>>)

\* getAdditionalMemesForKeyword: a search for `count` copies of the keyword,
\* or the empty list when the search throws.
GetAdditionalMemesForKeyword(keyword, count) ==
    SearchMemesForKeywords([i \in 1..count |-> keyword]) \cup {<<>>}

\* ------------------------------------------------- single asset search
\* One call of searchMemesForKeywords, step by step: every keyword of the
\* call shows the same result page (the call getAdditionalMemesForKeyword
\* makes, with one keyword repeated).
AllUrls == <<"u1", "u2", "u3", "u4", "u5", "u6">>

Databases == {"apu", "bobo"}

maxMemes == 4
searchMaxRetries == 5

\* The choice without the preference for URLs not selected yet.
ChooseFromIgnoringSelected(urls, excluded) == Range(urls)

\* uniqueUrls and urlsToChooseFrom of the single searches: the URLs not
\* selected yet, or all of them when every one was selected.
ChooseFrom(urls, excluded) ==
    LET uniqueUrls == SelectSeq(urls, LAMBDA url : url \notin Range(excluded))
    IN  IF Len(uniqueUrls) > 0 THEN Range(uniqueUrls) ELSE Range(urls)

\* searchSingleKeyword (Apu): the URLs one search may return.
SearchSingleKeyword(urls, excluded) == ChooseFrom(urls, excluded)

\* limitedMemes of searchSingleKeywordBobo: memeUrls.slice(0, maxMemes).
LimitedMemes(urls) ==
    SubSeq(urls, 1, IF Len(urls) < maxMemes THEN Len(urls) ELSE maxMemes)

\* searchSingleKeywordBobo: the choice is made among the first maxMemes URLs.
SearchSingleKeywordBobo(urls, excluded) == ChooseFrom(LimitedMemes(urls), excluded)

InitSearch ==
    /\ JobsOff
    /\ ExpandOff
    /\ RetrievalOff
    /\ CatchOff
    /\ BudgetOff
    /\ RequestOff
    /\ ExtractOff
    /\ ClockOff
    /\ FilesOff
    /\ database \in Databases
    /\ memeUrls \in {SubSeq(AllUrls, 1, n) : n \in 0..MaxResults}
    /\ keywordCount \in 1..MaxSearches
    /\ selectedUrls = <<>>
    /\ memeUrl = "none"
    /\ retryCount = 0
    /\ sidx = 1
    /\ spc = "search"

\* searchSingleKeywordIsolated: the search of the database returns a URL.
SearchSingleKeywordIsolated ==
    /\ spc = "search"
    /\ memeUrls # <<>>
    /\ memeUrl' \in IF database = "bobo"
                    THEN SearchSingleKeywordBobo(memeUrls, selectedUrls)
                    ELSE SearchSingleKeyword(memeUrls, selectedUrls)
    /\ retryCount' = retryCount + 1
    /\ spc' = "found"
    /\ UNCHANGED <<database, memeUrls, keywordCount, selectedUrls, sidx, jobVars, expandVars, retrievalVars, catchVars, budgetVars, requestVars, extractVars, clockVars, fileVars>>

\* The result page is empty: the single search throws and the call rethrows.
SearchThrows ==
    /\ spc = "search"
    /\ memeUrls = <<>>
    /\ spc' = "failed"
    /\ UNCHANGED <<database, memeUrls, keywordCount, selectedUrls, memeUrl, retryCount, sidx, jobVars, expandVars, retrievalVars, catchVars, budgetVars, requestVars, extractVars, clockVars, fileVars>>

\* The do/while of searchMemesForKeywords: a URL selected before is searched
\* again while fewer than searchMaxRetries searches were made.
SearchAgain ==
    /\ spc = "found"
    /\ memeUrl \in Range(selectedUrls)
    /\ retryCount < searchMaxRetries
    /\ spc' = "search"
    /\ UNCHANGED <<database, memeUrls, keywordCount, selectedUrls, memeUrl, retryCount, sidx, jobVars, expandVars, retrievalVars, catchVars, budgetVars, requestVars, extractVars, clockVars, fileVars>>

\* The URL is pushed to selectedUrls and the loop goes to the next keyword.
SelectUrl ==
    /\ spc = "found"
    /\ ~(memeUrl \in Range(selectedUrls) /\ retryCount < searchMaxRetries)
    /\ selectedUrls' = Append(selectedUrls, memeUrl)
    /\ retryCount' = 0
    /\ sidx' = sidx + 1
    /\ spc' = IF sidx = keywordCount THEN "done" ELSE "search"
    /\ UNCHANGED <<database, memeUrls, keywordCount, memeUrl, jobVars, expandVars, retrievalVars, catchVars, budgetVars, requestVars, extractVars, clockVars, fileVars>>

NextSearch ==
    \/ SearchSingleKeywordIsolated
    \/ SearchThrows
    \/ SearchAgain
    \/ SelectUrl

SpecSearch == InitSearch /\ [][NextSearch]_vars

\* ------------------------------------------------------------- job ids
\* Accepted requests of POST /api/generate on a millisecond clock. An entry
\* of jobStore is [request |-> the number of the request that stored it,
\* mode |-> its mode]; an id without a job has request 0.
Milliseconds == 1..MaxClock

NoEntry == [request |-> 0, mode |-> "absent"]

InitClock ==
    /\ JobsOff
    /\ ExpandOff
    /\ RetrievalOff
    /\ CatchOff
    /\ BudgetOff
    /\ RequestOff
    /\ ExtractOff
    /\ SearchOff
    /\ FilesOff
    /\ now = 1
    /\ jobIds = <<>>
    /\ jobStore = [t \in Milliseconds |-> NoEntry]

\* The clock reaches the next millisecond.
ClockTick ==
    /\ now < MaxClock
    /\ now' = now + 1
    /\ UNCHANGED <<jobIds, jobStore, jobVars, expandVars, retrievalVars, catchVars, budgetVars, requestVars, extractVars, searchVars, fileVars>>

\* An accepted request: jobId = Date.now().toString(), activeJobs.set(jobId,
\* ...) and the answer { jobId }. Map.set replaces an entry of the same key.
AcceptGenerate(mode) ==
    /\ Len(jobIds) < MaxRequests
    /\ LET jobId == now
       IN  /\ jobStore' = [jobStore EXCEPT ![jobId] =
                               [request |-> Len(jobIds) + 1, mode |-> mode]]
           /\ jobIds' = Append(jobIds, jobId)
    /\ UNCHANGED <<now, jobVars, expandVars, retrievalVars, catchVars, budgetVars, requestVars, extractVars, searchVars, fileVars>>

NextClock ==
    \/ ClockTick
    \/ \E mode \in {"script", "youtube"} : AcceptGenerate(mode)

SpecClock == InitClock /\ [][NextClock]_vars

\* ---------------------------------------------------- the renderer's files
\* The one VideoRenderer of the one generator (server.js:20, index.js:21)
\* keeps its audio in media/audio.m4a and its video in media/output.mp4. A
\* file's content is named by the job that wrote it, 0 for no file.
Pipelines == 1..MaxPipelines

NoVideo == [job |-> 0, audio |-> 0]

InitFiles ==
    /\ JobsOff
    /\ ExpandOff
    /\ RetrievalOff
    /\ CatchOff
    /\ BudgetOff
    /\ RequestOff
    /\ ExtractOff
    /\ SearchOff
    /\ ClockOff
    /\ audioFile = 0
    /\ outputFile = NoVideo
    /\ audioUsed = [j \in Pipelines |-> 0]
    /\ fpc = [j \in Pipelines |-> "off"]

\* POST /api/generate starts the pipeline of job j in the background.
StartPipeline(j) ==
    /\ fpc[j] = "off"
    /\ fpc' = [fpc EXCEPT ![j] = "fetch"]
    /\ UNCHANGED <<audioFile, outputFile, audioUsed, jobVars, expandVars, retrievalVars, catchVars, budgetVars, requestVars, extractVars, searchVars, clockVars>>

\* downloadAudio of job j: the processed audio is written to this.audioPath.
FetchAudio(j) ==
    /\ fpc[j] = "fetch"
    /\ audioFile' = j
    /\ fpc' = [fpc EXCEPT ![j] = "compose"]
    /\ UNCHANGED <<outputFile, audioUsed, jobVars, expandVars, retrievalVars, catchVars, budgetVars, requestVars, extractVars, searchVars, clockVars>>

\* createVideo of job j: ffmpeg reads the audio path it was handed (the
\* this.audioPath downloadAudio returned) and writes this.outputPath.
CreateVideo(j) ==
    /\ fpc[j] = "compose"
    /\ audioUsed' = [audioUsed EXCEPT ![j] = audioFile]
    /\ outputFile' = [job |-> j, audio |-> audioFile]
    /\ fpc' = [fpc EXCEPT ![j] = "complete"]
    /\ UNCHANGED <<audioFile, jobVars, expandVars, retrievalVars, catchVars, budgetVars, requestVars, extractVars, searchVars, clockVars>>

\* updateJob('completed', 100, ..., path.basename(outputPath)): the result
\* of job j is the name output.mp4.
CompletePipeline(j) ==
    /\ fpc[j] = "complete"
    /\ fpc' = [fpc EXCEPT ![j] = "done"]
    /\ UNCHANGED <<audioFile, outputFile, audioUsed, jobVars, expandVars, retrievalVars, catchVars, budgetVars, requestVars, extractVars, searchVars, clockVars>>

NextFiles ==
    \E j \in Pipelines :
        \/ StartPipeline(j)
        \/ FetchAudio(j)
        \/ CreateVideo(j)
        \/ CompletePipeline(j)

SpecFiles == InitFiles /\ [][NextFiles]_vars

\* ---------------------------------------------------- segment expansion
maxSegmentDuration == 5
minSegmentDuration == 3

\* The expansion without the extra slot for a remainder of the minimum or more.
NumSegmentsFloorOnly(duration) == duration \div maxSegmentDuration

\* The expansion with the boundary remainder absorbed instead of split off.
NumSegmentsStrictBoundary(duration) ==
    LET n == duration \div maxSegmentDuration
        remainder == duration - n * maxSegmentDuration
    IN  IF remainder > minSegmentDuration THEN n + 1 ELSE n

\* The expansion with a slot of its own for every remainder, however short.
NumSegmentsCeiling(duration) ==
    LET n == duration \div maxSegmentDuration
        remainder == duration - n * maxSegmentDuration
    IN  IF remainder > 0 THEN n + 1 ELSE n

\* numSegments of expandLongSegments for a duration above the maximum.
NumSegments(duration) ==
    LET n == duration \div maxSegmentDuration
        remainder == duration - n * maxSegmentDuration
    IN  IF remainder > 0 /\ remainder < minSegmentDuration
        THEN n
        ELSE IF remainder >= minSegmentDuration THEN n + 1 ELSE n

\* The sub-segments numbered from 0, as the loop counts them.
SubSegmentsZeroBased(meme, urls) ==
    LET numSegments == NumSegments(meme.end - meme.start)
    IN  [k \in 1..numSegments |->
            [start |-> meme.start + (k - 1) * maxSegmentDuration,
             end |-> IF k = numSegments
                     THEN meme.end
                     ELSE meme.start + k * maxSegmentDuration,
             keyword |-> meme.keyword,
             url |-> IF k <= Len(urls)
                     THEN urls[k] ELSE meme.url,
             segmentIndex |-> k - 1,
             totalSegments |-> numSegments]]

\* The sub-segments without a fallback: only those an additional URL was
\* returned for are pushed.
SubSegmentsOnlySupplied(meme, urls) ==
    LET numSegments == NumSegments(meme.end - meme.start)
    IN  [k \in 1..Len(urls) |->
            [start |-> meme.start + (k - 1) * maxSegmentDuration,
             end |-> IF k = numSegments
                     THEN meme.end
                     ELSE meme.start + k * maxSegmentDuration,
             keyword |-> meme.keyword,
             url |-> urls[k],
             segmentIndex |-> k,
             totalSegments |-> numSegments]]

\* The sub-segments with the first one left on the URL the meme was matched
\* to, the additional URLs going to the sub-segments after it.
SubSegmentsFirstKeepsOriginal(meme, urls) ==
    LET numSegments == NumSegments(meme.end - meme.start)
    IN  [k \in 1..numSegments |->
            [start |-> meme.start + (k - 1) * maxSegmentDuration,
             end |-> IF k = numSegments
                     THEN meme.end
                     ELSE meme.start + k * maxSegmentDuration,
             keyword |-> meme.keyword,
             url |-> IF k > 1 /\ k - 1 <= Len(urls)
                     THEN urls[k - 1] ELSE meme.url,
             segmentIndex |-> k,
             totalSegments |-> numSegments]]

\* The sub-segments with the last one cut at the maximum like the others,
\* instead of reaching the end of the meme.
SubSegmentsLastNotExtended(meme, urls) ==
    LET numSegments == NumSegments(meme.end - meme.start)
    IN  [k \in 1..numSegments |->
            [start |-> meme.start + (k - 1) * maxSegmentDuration,
             end |-> meme.start + k * maxSegmentDuration,
             keyword |-> meme.keyword,
             url |-> IF k <= Len(urls)
                     THEN urls[k] ELSE meme.url,
             segmentIndex |-> k,
             totalSegments |-> numSegments]]

\* The sub-segments pushed for one long meme, given the additional URLs:
\* sub-segment i (from 0 in the code, from 1 here) takes additionalMemes[i],
\* and the URL the meme was matched to only when there is none.
SubSegments(meme, urls) ==
    LET numSegments == NumSegments(meme.end - meme.start)
    IN  [k \in 1..numSegments |->
            [start |-> meme.start + (k - 1) * maxSegmentDuration,
             end |-> IF k = numSegments
                     THEN meme.end
                     ELSE meme.start + k * maxSegmentDuration,
             keyword |-> meme.keyword,
             url |-> IF k <= Len(urls)
                     THEN urls[k] ELSE meme.url,
             segmentIndex |-> k,
             totalSegments |-> numSegments]]

\* A short meme is pushed as it is: it has no segmentIndex or totalSegments (0).
Unsplit(meme) ==
    [start |-> meme.start, end |-> meme.end, keyword |-> meme.keyword,
     url |-> meme.url, segmentIndex |-> 0, totalSegments |-> 0]

\* Transcript segments follow one another from 0; each has a keyword.
RECURSIVE Timeline(_, _)
Timeline(durations, from) ==
    IF durations = <<>>
    THEN <<>>
    ELSE <<[start |-> from, end |-> from + Head(durations).d,
            keyword |-> Head(durations).keyword]>>
         \o Timeline(Tail(durations), from + Head(durations).d)

SegmentInputs ==
    UNION {[1..n -> [d : 1..MaxDuration, keyword : Keywords]] : n \in 1..MaxAssets}

InitExpand ==
    /\ JobsOff
    /\ CatchOff
    /\ BudgetOff
    /\ RequestOff
    /\ ExtractOff
    /\ SearchOff
    /\ ClockOff
    /\ FilesOff
    /\ RetrievalOff
    /\ transcriptKeywords \in {Timeline(ds, 0) : ds \in SegmentInputs}
    /\ matchedMemes = <<>>
    /\ expandedMemes = <<>>
    /\ xpc = "match"
    /\ xidx = 0
    /\ additionalMemes = <<>>

\* Step 4 of the generator: the meme search for all keywords, combined with
\* the keyword data by index.
MatchAssets ==
    /\ xpc = "match"
    /\ \E memeResults \in SearchMemesForKeywords([i \in 1..Len(transcriptKeywords) |-> transcriptKeywords[i].keyword]) :
          matchedMemes' = [i \in 1..Len(transcriptKeywords) |->
                [start |-> transcriptKeywords[i].start, end |-> transcriptKeywords[i].end,
                 keyword |-> transcriptKeywords[i].keyword, url |-> memeResults[i]]]
    /\ xpc' = "expand"
    /\ xidx' = 1
    /\ UNCHANGED <<transcriptKeywords, expandedMemes, additionalMemes, jobVars, retrievalVars, catchVars, budgetVars, requestVars, extractVars, searchVars, clockVars, fileVars>>

\* The meme search throws: the generator rethrows and nothing is expanded.
MatchFails ==
    /\ xpc = "match"
    /\ xpc' = "failed"
    /\ UNCHANGED <<transcriptKeywords, matchedMemes, expandedMemes, xidx, additionalMemes, jobVars, retrievalVars, catchVars, budgetVars, requestVars, extractVars, searchVars, clockVars, fileVars>>

\* One iteration of the loop of expandLongSegments.
\* The loop body of expandLongSegments with a meme of exactly the maximum
\* duration taken for a long one.
ExpandSegmentStrictMax ==
    /\ xpc = "expand"
    /\ xidx <= Len(matchedMemes)
    /\ LET meme == matchedMemes[xidx]
           duration == meme.end - meme.start
       IN  IF duration < maxSegmentDuration
           THEN /\ expandedMemes' = Append(expandedMemes, Unsplit(meme))
                /\ additionalMemes' = <<>>
           ELSE \E found \in
                     GetAdditionalMemesForKeyword(meme.keyword, NumSegments(duration)) :
                   /\ additionalMemes' = found
                   /\ expandedMemes' = expandedMemes \o SubSegments(meme, found)
    /\ xidx' = xidx + 1
    /\ xpc' = IF xidx = Len(matchedMemes) THEN "done" ELSE "expand"
    /\ UNCHANGED <<transcriptKeywords, matchedMemes, jobVars, retrievalVars, catchVars, budgetVars, requestVars, extractVars, searchVars, clockVars, fileVars>>

ExpandSegment ==
    /\ xpc = "expand"
    /\ xidx <= Len(matchedMemes)
    /\ LET meme == matchedMemes[xidx]
           duration == meme.end - meme.start
       IN  IF duration <= maxSegmentDuration
           THEN /\ expandedMemes' = Append(expandedMemes, Unsplit(meme))
                /\ additionalMemes' = <<>>
           ELSE \E found \in
                     GetAdditionalMemesForKeyword(meme.keyword, NumSegments(duration)) :
                   /\ additionalMemes' = found
                   /\ expandedMemes' = expandedMemes \o SubSegments(meme, found)
    /\ xidx' = xidx + 1
    /\ xpc' = IF xidx = Len(matchedMemes) THEN "done" ELSE "expand"
    /\ UNCHANGED <<transcriptKeywords, matchedMemes, jobVars, retrievalVars, catchVars, budgetVars, requestVars, extractVars, searchVars, clockVars, fileVars>>

NextExpand ==
    \/ MatchAssets
    \/ MatchFails
    \/ ExpandSegment

SpecExpand == InitExpand /\ [][NextExpand]_vars

\* ---------------------------------------------------------------- actions
Init ==
    /\ activeJobs = [j \in JobIds |-> NoJob]
    /\ loggerInfo = <<>>
    /\ execs = [e \in ExecIds |-> NoExec]
    /\ nextJob = 1
    /\ nextExec = 1
    /\ regenInflight = [j \in JobIds |-> FALSE]
    /\ cleanups = 0
    /\ stream = NoStream
    /\ ExpandOff
    /\ RetrievalOff
    /\ CatchOff
    /\ BudgetOff
    /\ RequestOff
    /\ ExtractOff
    /\ SearchOff
    /\ ClockOff
    /\ FilesOff

\* POST /api/generate with a valid body, up to the first await of the
\* generator: the job is stored, generate*Async sets it running at 10 and
\* installs its hook on Logger.info. detailed is processingMode === 'detailed'
\* of the request; only generateVideo looks at it.
CreateJob(mode, detailed) ==
    /\ UNCHANGED <<expandVars, retrievalVars, catchVars, budgetVars, requestVars, extractVars, searchVars, clockVars, fileVars, stream>>
    /\ nextJob <= MaxJobs
    /\ CanStart
    /\ LET j == nextJob
           stored == [activeJobs EXCEPT ![j] = InitialJob(mode)]
       IN  /\ activeJobs' = UpdateJobReplace(stored, j, "running", 10, "Initializing...", "null")
           /\ execs' = [execs EXCEPT ![nextExec] =
                  [job |-> j, kind |-> mode,
                   detailed |-> detailed,
                   pc |-> IF mode = "script" THEN "t1" ELSE "s1",
                   settled |-> FALSE, originalInfo |-> loggerInfo,
                   keywordData |-> <<>>]]
           /\ loggerInfo' = <<[job |-> j, kind |-> mode]>> \o loggerInfo
    /\ nextJob' = nextJob + 1
    /\ nextExec' = nextExec + 1
    /\ UNCHANGED <<regenInflight, cleanups>>

\* The generator of execution e logs its next step line through the global
\* Logger.info, whatever hooks are installed on it at that moment.
EmitLog(e) ==
    /\ UNCHANGED <<expandVars, retrievalVars, catchVars, budgetVars, requestVars, extractVars, searchVars, clockVars, fileVars, stream>>
    /\ execs[e].pc \in LogPcs
    /\ \E p \in NextPcs(execs[e].pc, execs[e].detailed) :
          execs' = [execs EXCEPT ![e].pc = p]
    /\ activeJobs' = CallInfo(loggerInfo, LineAt(execs[e].pc), activeJobs)
    /\ UNCHANGED <<loggerInfo, nextJob, nextExec, regenInflight, cleanups>>

\* The generator of e returns the output path: the hook is taken off by
\* restoring the Logger.info saved at installation, and the job completes.
\* An execution whose race the timeout has already settled just ends.
Complete(e) ==
    /\ UNCHANGED <<expandVars, retrievalVars, catchVars, budgetVars, requestVars, extractVars, searchVars, clockVars, fileVars, stream>>
    /\ execs[e].pc = "ret"
    /\ execs' = [execs EXCEPT ![e] = NoExec]
    /\ IF execs[e].settled
       THEN UNCHANGED <<activeJobs, loggerInfo>>
       ELSE /\ loggerInfo' = execs[e].originalInfo
            /\ activeJobs' = UpdateJob(execs[e].kind, activeJobs, execs[e].job,
                                       "completed", 100,
                                       "Video generated successfully!", "output.mp4")
    /\ UNCHANGED <<nextJob, nextExec, regenInflight, cleanups>>

\* The detailed generator returns the pause data of n keyword assignments:
\* they are stored on the job object, if it is still in the map, and the
\* function returns without restoring Logger.info.
ExtractedData(n) == [i \in 1..n |-> [seg |-> i, keyword |-> "extracted"]]

Pause(e, n) ==
    /\ UNCHANGED <<expandVars, retrievalVars, catchVars, budgetVars, requestVars, extractVars, searchVars, clockVars, fileVars, stream>>
    /\ execs[e].pc = "pause"
    /\ execs' = [execs EXCEPT ![e] = NoExec]
    /\ LET j == execs[e].job
       IN  IF execs[e].settled \/ activeJobs[j].status = "absent"
           THEN UNCHANGED activeJobs
           ELSE activeJobs' = [activeJobs EXCEPT ![j] =
                   [@ EXCEPT !.paused = TRUE,
                             !.keywordData = ExtractedData(n),
                             !.keywords = ExtractedData(n),
                             !.status = "keywords_extracted",
                             !.message = "Keywords extracted, waiting for user review",
                             !.progress = 40]]
    /\ UNCHANGED <<loggerInfo, nextJob, nextExec, regenInflight, cleanups>>

\* A catch block that records the message and leaves the status as it was.
FailJobStatusKept(e, message) ==
    UpdateJob(execs[e].kind, activeJobs, execs[e].job,
              activeJobs[execs[e].job].status, 0, message, "null")

\* The catch block's updateJob('error', 0, userMessage): Logger.info is set
\* to Logger.info.originalInfo || Logger.info, which is Logger.info itself.
FailJob(e, message) ==
    UpdateJob(execs[e].kind, activeJobs, execs[e].job, "error", 0, message, "null")

\* A stage of e throws.
Throw(e) ==
    /\ UNCHANGED <<expandVars, retrievalVars, catchVars, budgetVars, requestVars, extractVars, searchVars, clockVars, fileVars, stream>>
    /\ Running(e)
    /\ execs' = [execs EXCEPT ![e] = NoExec]
    /\ IF execs[e].settled
       THEN UNCHANGED activeJobs
       ELSE activeJobs' = FailJob(e, StageMessage)
    /\ UNCHANGED <<loggerInfo, nextJob, nextExec, regenInflight, cleanups>>

\* The timer of the Promise.race of generateVideoAsync and
\* generateScriptVideoAsync rejects first: the job fails, the generator is
\* not interrupted and goes on logging.
Timeout(e) ==
    /\ UNCHANGED <<expandVars, retrievalVars, catchVars, budgetVars, requestVars, extractVars, searchVars, clockVars, fileVars, stream>>
    /\ Running(e)
    /\ execs[e].kind \in {"youtube", "script"}
    /\ ~execs[e].settled
    /\ execs' = [execs EXCEPT ![e].settled = TRUE]
    /\ activeJobs' = FailJob(e, IF execs[e].kind = "script"
                                THEN ScriptTimeoutMessage ELSE TimeoutMessage)
    /\ UNCHANGED <<loggerInfo, nextJob, nextExec, regenInflight, cleanups>>

\* keywordData of continueDetailedGeneration: one entry per reviewed keyword,
\* the i-th spreading the i-th stored assignment (nothing, beyond the stored
\* list: seg 0) and taking the reviewed keyword.
Reconstruct(reviewedKeywords, keywordData) ==
    [i \in 1..Len(reviewedKeywords) |->
        [seg |-> IF i <= Len(keywordData) THEN keywordData[i].seg ELSE 0,
         keyword |-> reviewedKeywords[i].keyword]]

ReviewedList(n) == [i \in 1..n |-> [keyword |-> "reviewed"]]

\* The in-place writes of POST /api/continue/:jobId.
MarkReviewed(job) ==
    [job EXCEPT !.reviewedKeywords = TRUE,
                !.status = "keywords_reviewed",
                !.message = "Keywords reviewed, continuing generation...",
                !.progress = 50]

\* Whether the map callback of continueDetailedGeneration throws: it indexes
\* job.keywordData, which a job object without pause data does not have.
ReconstructThrows(job, reviewedKeywords) ==
    ~job.paused /\ Len(reviewedKeywords) > 0

\* POST /api/continue/:jobId for a job in the map with an array of n
\* keywords, up to the first await of the generator: the job is marked
\* reviewed at 50, continueDetailedGeneration rebuilds the keyword data,
\* installs its hook, and the generator logs "Step 4/6" before it first
\* awaits. A TypeError of the rebuild is caught and fails the job.
Resume(j, n) ==
    /\ UNCHANGED <<expandVars, retrievalVars, catchVars, budgetVars, requestVars, extractVars, searchVars, clockVars, fileVars, stream>>
    /\ activeJobs[j].status # "absent"
    /\ CanStart
    /\ LET reviewedKeywords == ReviewedList(n)
           marked == [activeJobs EXCEPT ![j] = MarkReviewed(@)]
           hooked == <<[job |-> j, kind |-> "continue"]>> \o loggerInfo
       IN  IF ReconstructThrows(activeJobs[j], reviewedKeywords)
           THEN /\ activeJobs' = UpdateJobSpread(marked, j, "error", 0, StageMessage, "null")
                /\ UNCHANGED <<loggerInfo, execs, nextExec>>
           ELSE /\ execs' = [execs EXCEPT ![nextExec] =
                       [job |-> j, kind |-> "continue", detailed |-> FALSE,
                        pc |-> "s5", settled |-> FALSE,
                        originalInfo |-> loggerInfo,
                        keywordData |-> Reconstruct(reviewedKeywords,
                                                    activeJobs[j].keywordData)]]
                /\ loggerInfo' = hooked
                /\ activeJobs' = CallInfo(hooked, "Step 4/6", marked)
                /\ nextExec' = nextExec + 1
    /\ UNCHANGED <<nextJob, regenInflight, cleanups>>

\* POST /api/regenerate-keywords/:jobId up to its await of extractKeywords:
\* needs job.transcript, which is part of the pause data.
RegenStart(j) ==
    /\ UNCHANGED <<expandVars, retrievalVars, catchVars, budgetVars, requestVars, extractVars, searchVars, clockVars, fileVars, stream>>
    /\ activeJobs[j].status # "absent"
    /\ activeJobs[j].paused
    /\ ~regenInflight[j]
    /\ activeJobs' = [activeJobs EXCEPT ![j] =
           [@ EXCEPT !.status = "regenerating_keywords",
                     !.message = "Regenerating keywords...",
                     !.captured = TRUE]]
    /\ regenInflight' = [regenInflight EXCEPT ![j] = TRUE]
    /\ UNCHANGED <<loggerInfo, execs, nextJob, nextExec, cleanups>>

\* extractKeywords returns to the regenerate handler, which writes to the job
\* object it read before the await: the map shows the writes only if that
\* object is still the map's entry.
RegenDone(j) ==
    /\ UNCHANGED <<expandVars, retrievalVars, catchVars, budgetVars, requestVars, extractVars, searchVars, clockVars, fileVars, stream>>
    /\ regenInflight[j]
    /\ regenInflight' = [regenInflight EXCEPT ![j] = FALSE]
    /\ IF activeJobs[j].captured
       THEN activeJobs' = [activeJobs EXCEPT ![j] =
               [@ EXCEPT !.keywords = [i \in 1..Len(@) |->
                                          [seg |-> i, keyword |-> "regenerated"]],
                         !.status = "keywords_extracted",
                         !.message = "Keywords regenerated, ready for review",
                         !.captured = FALSE]]
       ELSE UNCHANGED activeJobs
    /\ UNCHANGED <<loggerInfo, execs, nextJob, nextExec, cleanups>>

\* POST /api/cleanup: the map is cleared; nothing running is stopped.
Cleanup ==
    /\ UNCHANGED <<expandVars, retrievalVars, catchVars, budgetVars, requestVars, extractVars, searchVars, clockVars, fileVars, stream>>
    /\ cleanups < MaxCleanups
    /\ cleanups' = cleanups + 1
    /\ activeJobs' = [j \in JobIds |-> NoJob]
    /\ UNCHANGED <<loggerInfo, execs, nextJob, nextExec, regenInflight>>

\* GET /api/stream/:jobId for any id, in the map or not: the headers are
\* written and sendUpdate is called at once.
Subscribe(j) ==
    /\ stream = NoStream
    /\ stream' = SendUpdateTo([NoStream EXCEPT !.job = j, !.open = TRUE], activeJobs)
    /\ UNCHANGED <<activeJobs, loggerInfo, execs, nextJob, nextExec, regenInflight,
                   cleanups, expandVars, retrievalVars, catchVars, budgetVars, requestVars, extractVars, searchVars, clockVars, fileVars>>

\* The one-second timer of the open stream runs sendUpdate.
SendUpdate ==
    /\ stream.open
    /\ stream' = SendUpdateTo(stream, activeJobs)
    /\ UNCHANGED <<activeJobs, loggerInfo, execs, nextJob, nextExec, regenInflight,
                   cleanups, expandVars, retrievalVars, catchVars, budgetVars, requestVars, extractVars, searchVars, clockVars, fileVars>>

\* The subscriber goes away: req emits 'close' and the handler ends the
\* response; the timer of sendUpdate is not cleared.
Disconnect ==
    /\ stream.job # 0
    /\ ~stream.ended
    /\ stream' = [stream EXCEPT !.ended = TRUE]
    /\ UNCHANGED <<activeJobs, loggerInfo, execs, nextJob, nextExec, regenInflight,
                   cleanups, expandVars, retrievalVars, catchVars, budgetVars, requestVars, extractVars, searchVars, clockVars, fileVars>>

\* An answer of GET /api/status/:jobId that takes every id for a job's.
ReplyToAlwaysFound(j, jobs) ==
    [job |-> j, code |-> 200, status |-> jobs[j].status, progress |-> jobs[j].progress]

\* The answer of GET /api/status/:jobId with `jobs` the map: 404 for an id
\* that is not in it, otherwise the job object as it is.
ReplyTo(j, jobs) ==
    IF jobs[j].status = "absent"
    THEN [job |-> j, code |-> 404, status |-> "Job not found", progress |-> 0]
    ELSE [job |-> j, code |-> 200, status |-> jobs[j].status, progress |-> jobs[j].progress]

\* GET /api/status/:jobId: activeJobs.get and the answer, nothing else.
GetStatus(j) ==
    /\ statusReply' = ReplyTo(j, activeJobs)
    /\ UNCHANGED <<jobVars, expandVars, retrievalVars, catchVars, budgetVars,
                   request, response, allocated, extractVars, searchVars, clockVars, fileVars>>

Next ==
    \/ \E mode \in {"youtube", "script"}, detailed \in BOOLEAN : CreateJob(mode, detailed)
    \/ \E e \in ExecIds : EmitLog(e)
    \/ \E e \in ExecIds : Complete(e)
    \/ \E e \in ExecIds, n \in 1..MaxSegs : Pause(e, n)
    \/ \E e \in ExecIds : Throw(e)
    \/ \E e \in ExecIds : Timeout(e)
    \/ \E j \in JobIds, n \in 0..(MaxSegs + 1) : Resume(j, n)
    \/ \E j \in JobIds : RegenStart(j)
    \/ \E j \in JobIds : RegenDone(j)
    \/ Cleanup

Spec == Init /\ [][Next]_vars

\* Every awaited stage of a pipeline settles: an execution that can log,
\* return, hand back its pause data or throw does one of them in the end.
ExecStep(e) ==
    \/ EmitLog(e)
    \/ Complete(e)
    \/ \E n \in 1..MaxSegs : Pause(e, n)
    \/ Throw(e)

\* The orchestrator with every request for a YouTube job in detailed mode,
\* the jobs that pause for review.
NextReview ==
    \/ CreateJob("youtube", TRUE)
    \/ \E e \in ExecIds : EmitLog(e)
    \/ \E e \in ExecIds : Complete(e)
    \/ \E e \in ExecIds, n \in 1..MaxSegs : Pause(e, n)
    \/ \E e \in ExecIds : Throw(e)
    \/ \E e \in ExecIds : Timeout(e)
    \/ \E j \in JobIds, n \in 0..(MaxSegs + 1) : Resume(j, n)
    \/ \E j \in JobIds : RegenStart(j)
    \/ \E j \in JobIds : RegenDone(j)
    \/ Cleanup

SpecReview == Init /\ [][NextReview]_vars /\ \A e \in ExecIds : WF_vars(ExecStep(e))

\* Quick YouTube jobs with a subscriber: every stage settles and the timer of
\* an open stream keeps firing.
NextStream ==
    \/ CreateJob("youtube", FALSE)
    \/ \E e \in ExecIds : EmitLog(e)
    \/ \E e \in ExecIds : Complete(e)
    \/ \E e \in ExecIds : Throw(e)
    \/ \E e \in ExecIds : Timeout(e)
    \/ Cleanup
    \/ \E j \in JobIds : Subscribe(j)
    \/ SendUpdate

SpecStream ==
    /\ Init
    /\ [][NextStream]_vars
    /\ \A e \in ExecIds : WF_vars(ExecStep(e))
    /\ WF_vars(SendUpdate)

\* The stream with a subscriber that may go away at any moment.
NextPoll ==
    \/ NextStream
    \/ Disconnect

SpecPoll ==
    /\ Init
    /\ [][NextPoll]_vars
    /\ \A e \in ExecIds : WF_vars(ExecStep(e))
    /\ WF_vars(SendUpdate)

\* The orchestrator with its two read endpoints, the status request and the
\* stream, beside the pipelines of direct-source jobs.
NextStatus ==
    \/ CreateJob("youtube", FALSE)
    \/ \E e \in ExecIds : EmitLog(e)
    \/ \E e \in ExecIds : Complete(e)
    \/ \E e \in ExecIds : Throw(e)
    \/ Cleanup
    \/ \E j \in JobIds : GetStatus(j)
    \/ \E j \in JobIds : Subscribe(j)
    \/ SendUpdate

SpecStatus == Init /\ [][NextStatus]_vars

\* ------------------------------------------------- orchestrator properties
InMap(j) == activeJobs[j].status # "absent"
Terminal(job) == job.status \in {"completed", "error"}

\* What a client sees of a job: status, progress, message and result.
Visible(job) == <<job.status, job.progress, job.message, job.outputPath>>

\* The step is one of a running execution e: it logs, returns, throws or
\* times out.
StepOf(e) == Running(e) /\ execs'[e] # execs[e]

\* The step is POST /api/continue/:jobId for job j starting a continuation
\* with n keywords.
ResumeStarts(j, n) ==
    /\ nextExec' = nextExec + 1
    /\ nextExec \in ExecIds
    /\ execs'[nextExec].kind = "continue"
    /\ execs'[nextExec].job = j
    /\ Len(execs'[nextExec].keywordData) = n

\* C1: a job's progress never decreases from one update to the next, for
\* as long as the job is in the map.
C1_ProgressNeverDecreases ==
    [][\A j \in JobIds :
          (InMap(j) /\ activeJobs'[j].status # "absent")
              => activeJobs'[j].progress >= activeJobs[j].progress]_vars

\* C2: once a job is completed or error, no later step changes its status
\* while it is in the map.
C2_TerminalAbsorbing ==
    [][\A j \in JobIds :
          (Terminal(activeJobs[j]) /\ activeJobs'[j].status # "absent")
              => activeJobs'[j].status = activeJobs[j].status]_vars

\* C3: a step of an execution of job a leaves status, progress, message and
\* result of every other job as they were.
C3_NoInterference ==
    [][\A e \in ExecIds :
          StepOf(e) => \A b \in JobIds \ {execs[e].job} :
                          Visible(activeJobs'[b]) = Visible(activeJobs[b])]_vars

\* C4: a resume of a job awaiting review with a list of another length than
\* the exposed one starts nothing and leaves the status keywords_extracted.
C4_MismatchLeavesAwaitingReview ==
    [][~ \E j \in JobIds, n \in 0..(MaxSegs + 1) :
            /\ activeJobs[j].status = "keywords_extracted"
            /\ activeJobs[j].paused
            /\ n # Len(activeJobs[j].keywordData)
            /\ ResumeStarts(j, n)]_vars

\* C10: at no time do two pipeline executions work on the same job, whatever
\* resume requests arrive (twice, or for a running or terminal job).
C10_SingleWriter ==
    \A e1, e2 \in ExecIds :
        (e1 # e2 /\ Running(e1) /\ Running(e2)) => execs[e1].job # execs[e2].job

\* C11: a job that cleanup has taken out of the map stays out of it, whatever
\* its pipeline does afterwards.
C11_CleanedJobsStayGone ==
    [][\A j \in JobIds :
          (j < nextJob /\ cleanups > 0 /\ ~InMap(j)) => activeJobs'[j].status = "absent"]_vars

\* The step is the detailed generator of a job j execution handing back its
\* pause data.
PauseOf(j) ==
    \E e \in ExecIds : execs[e].job = j /\ execs[e].pc = "pause" /\ execs'[e].pc = "free"

\* C12: a job becomes keywords_extracted only from running, by its generator
\* returning the pause data, and stops being keywords_extracted only by a
\* resume that leaves it running (or by the cleanup that removes it).
C12_ReviewOnlyBetweenPauseAndResume ==
    [][\A j \in JobIds :
          /\ (activeJobs[j].status # "keywords_extracted"
                /\ activeJobs'[j].status = "keywords_extracted")
                 => (activeJobs[j].status = "running" /\ PauseOf(j))
          /\ (activeJobs[j].status = "keywords_extracted"
                /\ activeJobs'[j].status \notin {"keywords_extracted", "absent"})
                 => (activeJobs'[j].status = "running"
                       /\ \E n \in 0..(MaxSegs + 1) : ResumeStarts(j, n))]_vars

\* The positions of a pipeline whose meme search has been started.
PastExtraction == {"s5", "s6", "t6", "t7", "ret"}

\* C13: the pipeline started for a request in detailed mode never gets past
\* keyword extraction; the later stages belong to the continuation that a
\* resume starts.
C13_DetailedStopsAfterExtraction ==
    \A e \in ExecIds :
        (execs[e].kind \in {"youtube", "script"} /\ execs[e].detailed)
            => execs[e].pc \notin PastExtraction

\* A continuation of job j is running.
Continuing(j) ==
    \E e \in ExecIds : execs[e].kind = "continue" /\ execs[e].job = j /\ Running(e)

C24_StagesOfAJobInSequence ==
    \A e1, e2 \in ExecIds :
        (e1 # e2 /\ Running(e1) /\ Running(e2)) => execs[e1].job # execs[e2].job

\* C25: a job awaiting review carries its pause data, and a step that is
\* not a resume of the job (nor the cleanup that removes it) leaves the data
\* on the job as it was.
C25_PauseDataKeptUntilResume ==
    [][\A j \in JobIds :
          (/\ activeJobs[j].status = "keywords_extracted"
           /\ activeJobs[j].paused
           /\ activeJobs'[j].status # "absent"
           /\ ~\E n \in 0..(MaxSegs + 1) : ResumeStarts(j, n))
              => (/\ activeJobs'[j].paused
                  /\ activeJobs'[j].keywordData = activeJobs[j].keywordData)]_vars

\* The step is a stage of execution e throwing: the execution ends from a
\* position where it can neither return nor hand back pause data.
Throws(e) ==
    /\ Running(e)
    /\ execs[e].pc \notin {"ret", "pause"}
    /\ execs'[e].pc = "free"

\* C15: when a stage of a job's pipeline throws, the job is in status error
\* after the step, and the pipeline that threw has ended.
C15_ThrowMakesError ==
    [][\A e \in ExecIds :
          Throws(e) => /\ activeJobs'[execs[e].job].status = "error"
                       /\ ~Running(e)']_vars

\* The words the else-if chain of a wrapper's catch block looks for.
LookedFor(kind) ==
    CASE kind = "youtube" ->
           {"functions", "player", "private", "unavailable", "timeout", "network", "ENOTFOUND"}
      [] kind = "script" ->
           {"ELEVENLABS_API_KEY", "Failed to generate speech", "Failed to download music",
            "timeout", "network", "ENOTFOUND"}
      [] OTHER -> {"timeout", "network", "ENOTFOUND"}

BudgetMinutes == 10

\* C17: no pipeline is still awaited once more than the budget of ten
\* minutes has passed: by then its job has failed with the timeout message.
C17_TimeoutAtBudget ==
    clock > BudgetMinutes => race # "pending"

\* C18: once the job a subscriber follows is completed or error, the
\* subscriber gets a snapshot with a terminal status and the stream closes;
\* a closed stream is written to no more.
C18_StreamDeliversTerminal ==
    /\ \A j \in JobIds :
          (stream.job = j /\ stream.open /\ Terminal(activeJobs[j]))
              ~> (~stream.open /\ stream.sent \in {"completed", "error"})
    /\ [][(stream.job # 0 /\ ~stream.open) => stream' = stream]_vars

\* A trim range is given and its start is not before its end.
MalformedRange(req) ==
    /\ req.startTime # <<>>
    /\ req.endTime # <<>>
    /\ TimeToSeconds(req.startTime) >= TimeToSeconds(req.endTime)

NoSource(req) == ~req.youtubeUrl /\ req.scriptText \in {"absent", "blank"}

\* C19: a request without source and script, or with a trim range whose
\* start is not before its end, is answered 400 and allocates no job.
C19_InvalidRequestRejected ==
    (response # 0 /\ (NoSource(request) \/ MalformedRange(request)))
        => (response = 400 /\ ~allocated)

\* ------------------------------------------- segment expansion, checked
SlotLength(slot) == slot.end - slot.start

\* The slots pushed for a matched meme: its span holds them and no others,
\* the transcript segments following one another.
GroupOf(meme) ==
    SelectSeq(expandedMemes, LAMBDA slot : slot.start >= meme.start /\ slot.end <= meme.end)

Expanded(a) == a \in 1..Len(matchedMemes) /\ a < xidx

\* The number of slots the rule of the remainder asks for.
SlotsFor(d) ==
    IF d % maxSegmentDuration >= minSegmentDuration
    THEN d \div maxSegmentDuration + 1
    ELSE d \div maxSegmentDuration

\* C5 as stated: no slot is longer than the maximum slot duration.
C5_SlotWithinMax ==
    \A i \in 1..Len(expandedMemes) : SlotLength(expandedMemes[i]) <= maxSegmentDuration

\* C5 amended: every slot is shorter than the maximum plus the minimum slot
\* duration, and only the last slot of a group, the one that absorbs a
\* remainder below the minimum, is longer than the maximum.
C5_SlotWithinMaxPlusMin ==
    \A a \in 1..Len(matchedMemes) :
        Expanded(a) =>
            LET group == GroupOf(matchedMemes[a])
            IN  \A k \in 1..Len(group) :
                    /\ SlotLength(group[k]) < maxSegmentDuration + minSegmentDuration
                    /\ k < Len(group) => SlotLength(group[k]) <= maxSegmentDuration

C5_LastSlotAbsorbsRemainder ==
    /\ xpc = "done"
    /\ \E i \in 1..Len(expandedMemes) :
          /\ SlotLength(expandedMemes[i]) = maxSegmentDuration + minSegmentDuration - 1
          /\ expandedMemes[i].segmentIndex = 2
          /\ expandedMemes[i].totalSegments = 2

\* C6: a matched meme of duration d above the maximum, with n = d div max and
\* remainder r, gets n slots when r is below the minimum and n + 1 slots when
\* r is the minimum or more; the slots follow one another from the meme's
\* start in steps of the maximum and the last one ends at the meme's end.
C6_SlotCountByRemainder ==
    \A a \in 1..Len(matchedMemes) :
        LET meme == matchedMemes[a]
            d == meme.end - meme.start
            group == GroupOf(meme)
        IN  (Expanded(a) /\ d > maxSegmentDuration) =>
                /\ Len(group) = SlotsFor(d)
                /\ \A k \in 1..Len(group) :
                      /\ group[k].start = meme.start + (k - 1) * maxSegmentDuration
                      /\ group[k].end = IF k = Len(group)
                                        THEN meme.end
                                        ELSE meme.start + k * maxSegmentDuration

C6_BoundaryRemainderOwnSlot ==
    /\ xpc = "done"
    /\ Len(matchedMemes) = 1
    /\ matchedMemes[1].end - matchedMemes[1].start = 2 * maxSegmentDuration + minSegmentDuration
    /\ Len(expandedMemes) = 3
    /\ expandedMemes[3].start = 2 * maxSegmentDuration
    /\ expandedMemes[3].end = 2 * maxSegmentDuration + minSegmentDuration

UsedUrls ==
    {expandedMemes[i].url : i \in 1..Len(expandedMemes)}
        \cup {matchedMemes[i].url : i \in 1..Len(matchedMemes)}

\* C7: two slots of the job share a URL only if every URL of the pool of one
\* of their keywords is in use in the job.
C7_NoSharedAssetUrl ==
    \A i, j \in 1..Len(expandedMemes) :
        (i # j /\ expandedMemes[i].url = expandedMemes[j].url) =>
            \/ Pool(expandedMemes[i].keyword) \subseteq UsedUrls
            \/ Pool(expandedMemes[j].keyword) \subseteq UsedUrls

\* The matched meme the expansion loop has just gone through, when it was
\* longer than the maximum: additionalMemes is what was returned for it.
LastSplit ==
    /\ xpc \in {"expand", "done"}
    /\ xidx > 1
    /\ matchedMemes[xidx - 1].end - matchedMemes[xidx - 1].start > maxSegmentDuration

\* C20 as the specification states it: in a group of several slots the first
\* slot keeps the URL the meme was matched to.
C20_FirstSlotKeepsOriginalUrl ==
    \A a \in 1..Len(matchedMemes) :
        (Expanded(a) /\ Len(GroupOf(matchedMemes[a])) > 1) =>
            GroupOf(matchedMemes[a])[1].url = matchedMemes[a].url

\* C20: one additional URL is asked for per slot of the group, the first slot
\* included; slot k takes the k-th URL returned, and the URL the meme was
\* matched to only when fewer than k were returned (none when the search fails).
C20_EverySlotTakesAdditionalUrl ==
    LastSplit =>
        LET meme == matchedMemes[xidx - 1]
            group == GroupOf(meme)
        IN  /\ Len(additionalMemes) \in {0, Len(group)}
            /\ \A k \in 1..Len(group) :
                   group[k].url = IF k <= Len(additionalMemes)
                                  THEN additionalMemes[k]
                                  ELSE meme.url

\* A group of several slots whose first slot has left the URL the meme was
\* matched to for the first additional URL.
C20_FirstSlotReplaced ==
    /\ LastSplit
    /\ Len(GroupOf(matchedMemes[xidx - 1])) > 1
    /\ Len(additionalMemes) = Len(GroupOf(matchedMemes[xidx - 1]))
    /\ GroupOf(matchedMemes[xidx - 1])[1].url = additionalMemes[1]
    /\ GroupOf(matchedMemes[xidx - 1])[1].url # matchedMemes[xidx - 1].url

\* C26: a matched meme no longer than the maximum (the maximum included) has
\* exactly one slot, with the meme's start, end and URL.
C26_ShortMemeKeptAsIs ==
    \A a \in 1..Len(matchedMemes) :
        LET meme == matchedMemes[a]
            group == GroupOf(meme)
        IN  (Expanded(a) /\ meme.end - meme.start <= maxSegmentDuration) =>
                /\ Len(group) = 1
                /\ group[1].start = meme.start
                /\ group[1].end = meme.end
                /\ group[1].url = meme.url

\* A meme of exactly the maximum duration has gone through the loop.
C26_MemeOfMaxDurationKept ==
    \E a \in 1..Len(matchedMemes) :
        /\ Expanded(a)
        /\ matchedMemes[a].end - matchedMemes[a].start = maxSegmentDuration
        /\ Len(GroupOf(matchedMemes[a])) = 1

\* C27: the last slot of the group of a meme longer than the maximum lasts
\* the minimum slot duration or more.
C27_LastSlotAtLeastMin ==
    \A a \in 1..Len(matchedMemes) :
        LET meme == matchedMemes[a]
            group == GroupOf(meme)
        IN  (Expanded(a) /\ meme.end - meme.start > maxSegmentDuration) =>
                /\ Len(group) >= 1
                /\ SlotLength(group[Len(group)]) >= minSegmentDuration

\* Both cases of the remainder have happened: a last slot of exactly the
\* minimum, and a single slot that has absorbed a remainder of 1.
C27_LastSlotOfExactlyMin ==
    /\ \E a \in 1..Len(matchedMemes) :
          /\ Expanded(a)
          /\ Len(GroupOf(matchedMemes[a])) = 2
          /\ SlotLength(GroupOf(matchedMemes[a])[2]) = minSegmentDuration
    /\ \E a \in 1..Len(matchedMemes) :
          /\ Expanded(a)
          /\ matchedMemes[a].end - matchedMemes[a].start = maxSegmentDuration + 1
          /\ Len(GroupOf(matchedMemes[a])) = 1

\* C28 as the specification states it: every slot carries totalSegments, the
\* number of slots of its meme, and segmentIndex, its place among them.
C28_EverySlotTagged ==
    \A a \in 1..Len(matchedMemes) :
        LET group == GroupOf(matchedMemes[a])
        IN  Expanded(a) =>
                \A k \in 1..Len(group) :
                    /\ group[k].totalSegments = Len(group)
                    /\ group[k].segmentIndex = k

\* C28: the slots of a meme longer than the maximum carry totalSegments, the
\* number of slots of the meme, and segmentIndex, 1 to totalSegments in the
\* order of their start times; the slot of a meme no longer than the maximum
\* is the meme as it was and carries neither.
C28_SplitSlotsTagged ==
    \A a \in 1..Len(matchedMemes) :
        LET meme == matchedMemes[a]
            group == GroupOf(meme)
        IN  Expanded(a) =>
                IF meme.end - meme.start > maxSegmentDuration
                THEN \A k \in 1..Len(group) :
                        /\ group[k].totalSegments = Len(group)
                        /\ group[k].segmentIndex = k
                        /\ k > 1 => group[k].start > group[k - 1].start
                ELSE \A k \in 1..Len(group) :
                        /\ group[k].totalSegments = 0
                        /\ group[k].segmentIndex = 0

\* The expansion has ended with an untagged slot and a tagged group of two.
C28_TaggedAndUntaggedSlots ==
    /\ xpc = "done"
    /\ \E i \in 1..Len(expandedMemes) : expandedMemes[i].totalSegments = 0
    /\ \E i \in 1..Len(expandedMemes) :
          expandedMemes[i].totalSegments = 2 /\ expandedMemes[i].segmentIndex = 2

\* C29: when fewer additional URLs were returned than the group has slots
\* (none, when the search failed), the group has the slots the rule of the
\* remainder asks for, at the same times, and every slot without an
\* additional URL has the URL the meme was matched to.
C29_ShortfallRepeatsOriginalUrl ==
    LastSplit =>
        LET meme == matchedMemes[xidx - 1]
            d == meme.end - meme.start
            group == GroupOf(meme)
        IN  Len(additionalMemes) < SlotsFor(d) =>
                /\ Len(group) = SlotsFor(d)
                /\ \A k \in 1..Len(group) :
                      /\ group[k].start = meme.start + (k - 1) * maxSegmentDuration
                      /\ group[k].end = IF k = Len(group)
                                        THEN meme.end
                                        ELSE meme.start + k * maxSegmentDuration
                      /\ k > Len(additionalMemes) => group[k].url = meme.url

\* The additional search has failed for a meme split in two: both slots
\* repeat the URL the meme was matched to.
C29_SearchFailedForSplitMeme ==
    /\ LastSplit
    /\ additionalMemes = <<>>
    /\ Len(GroupOf(matchedMemes[xidx - 1])) = 2
    /\ \A k \in 1..2 : GroupOf(matchedMemes[xidx - 1])[k].url = matchedMemes[xidx - 1].url

\* ---------------------------------------------- audio retrieval, checked
PartialFiles == {f \in FileNames : mediaDir[f] = "partial"}

\* C8: the call fails only when every strategy and configuration pair has
\* been attempted and has failed.
C8_FailsOnlyAfterAllAttempts ==
    rpc = "failed" => Strategies \subseteq failedAttempts

\* C9: no attempt starts over the partial download of a failed one, and no
\* partial download is left when the call has returned.
C9_NoPartialDownloadLeft ==
    (rpc \in {"yt-dlp", "validate", "info", "download"} \/ (Returned /\ calls > 0))
        => PartialFiles = {}

\* The step leaves the yt-dlp strategy for the ytdl-core strategy.
LeavesYtDlp == rpc \in {"yt-dlp", "process"} /\ rpc' = "validate"

\* The step abandons the configuration of downloadAudioWithRetry in work: the
\* next one is taken, or there is none and the call fails.
LeavesConfig ==
    /\ rpc = "download"
    /\ configIndex' # configIndex \/ rpc' = "failed"

\* The attempts made with what is in work: yt-dlp is run once, a
\* configuration of downloadAudioWithRetry is at its attempt-th run.
AttemptsMade == IF rpc \in {"yt-dlp", "process"} THEN 1 ELSE attempt

C22_SuccessShortCircuits ==
    [][/\ (rpc \in {"process-core", "done"} /\ calls' = calls) =>
            /\ attempt' = attempt
            /\ configIndex' = configIndex
            /\ infoAttempt' = infoAttempt
            /\ failedAttempts' = failedAttempts
            /\ rpc' \in {"process-core", "done", "failed"}
       /\ (rpc = "process-core" /\ rpc' = "done") =>
            /\ mediaDir'["audio.m4a"] = "complete"
            /\ mediaDir'["temp_audio.webm"] = "none"]_vars

\* The call has returned the audio after yt-dlp failed and the first
\* configuration of ytdl-core succeeded at its second attempt.
C22_SucceededOnSecondAttempt ==
    /\ rpc = "done"
    /\ failedAttempts = {<<"yt-dlp", 1>>}
    /\ configIndex = 1
    /\ attempt = 2
    /\ mediaDir["audio.m4a"] = "complete"

\* ------------------------------------------------- status reads, checked
\* C23: a step that answers a status request or writes to the stream changes
\* no job, no pipeline and no counter; the answer for an id that is not in
\* the map is 404 and the id is still not in the map, the answer for a job
\* carries the job's status and progress as they are.
C23_StatusReadsChangeNothing ==
    [][/\ (statusReply' # statusReply \/ stream' # stream) =>
            /\ activeJobs' = activeJobs
            /\ execs' = execs
            /\ loggerInfo' = loggerInfo
            /\ nextJob' = nextJob
            /\ nextExec' = nextExec
       /\ statusReply' # statusReply =>
            LET j == statusReply'.job
            IN  IF activeJobs[j].status = "absent"
                THEN /\ statusReply'.code = 404
                     /\ activeJobs'[j].status = "absent"
                ELSE /\ statusReply'.code = 200
                     /\ statusReply'.status = activeJobs'[j].status
                     /\ statusReply'.progress = activeJobs'[j].progress]_vars

\* An unknown id has been answered 404 while a subscribed job is in work.
C23_UnknownIdAnswered404 ==
    /\ statusReply.code = 404
    /\ activeJobs[statusReply.job].status = "absent"
    /\ stream.open
    /\ stream.job # statusReply.job
    /\ activeJobs[stream.job].progress > 10

\* ---------------------------------------------- keyword extraction, checked
\* The words of a text the fallback may take.
UsableWords(text) ==
    {text.words[i] : i \in {k \in 1..Len(text.words) :
                                WordLength(text.words[k]) > 2
                                    /\ text.words[k] \notin Stopwords}}

\* C30: the assignments pushed so far are those of the first lines, in
\* order, each with its line's start, end and text and a keyword that is
\* not empty: 'default' when the line has no usable word and no OpenAI
\* client is there to answer; the call returns with one per line.
C30_OneAssignmentPerLineInOrder ==
    /\ Len(results) <= Len(transcriptLines)
    /\ kpc = "extract" => Len(results) = kidx - 1
    /\ kpc = "done" => Len(results) = Len(transcriptLines)
    /\ \A i \in 1..Len(results) :
          /\ results[i].start = transcriptLines[i].start
          /\ results[i].end = transcriptLines[i].end
          /\ results[i].text = transcriptLines[i].text
          /\ results[i].keyword \notin {"", "null"}
          /\ (~openai /\ UsableWords(transcriptLines[i].text) = {})
                 => results[i].keyword = "default"
          /\ results[i].keyword # "default"
                 => results[i].keyword \in Vocabulary

\* The call has returned for two lines, the first without a text: it has
\* the sentinel, the second a keyword of its own.
C30_SentinelForFailedLine ==
    /\ kpc = "done"
    /\ Len(results) = 2
    /\ ~transcriptLines[1].text.defined
    /\ results[1].keyword = "default"
    /\ results[2].keyword = "sad"

\* ------------------------------------------------ single search, checked
\* The results a single search chooses among: all of them in the Apu
\* database, the first four in the Bobo database.
C31_Considered ==
    IF database = "bobo" /\ Len(memeUrls) > 4 THEN SubSeq(memeUrls, 1, 4) ELSE memeUrls

C32_DistinctJobIds ==
    /\ \A a, b \in 1..Len(jobIds) : a # b => jobIds[a] # jobIds[b]
    /\ \A a \in 1..Len(jobIds) : jobStore[jobIds[a]].request = a

\* ---------------------------------------------- renderer files, checked
\* C33: the audio a job's compose step consumed is the audio that job
\* fetched, and the video a completed job's result names is the video that
\* job produced.
C33_JobsKeepTheirOwnMedia ==
    \A j \in Pipelines :
        /\ fpc[j] \in {"complete", "done"} => audioUsed[j] = j
        /\ fpc[j] = "done" => outputFile.job = j

\* ------------------------------------------------- job snapshots, checked
\* C34: every snapshot of a job that is in the map shows the mode and the
\* startTime that were recorded when the job was created.
C34_ModeAndStartTimeKept ==
    \A j \in JobIds :
        InMap(j) => /\ activeJobs[j].mode \in {"youtube", "script"}
                    /\ activeJobs[j].startTime = "created"

\* C35: for every job in the map, outputPath is present exactly when the
\* status is completed, a completed job has progress 100, and endTime is set
\* exactly when the status is completed or error.
C35_ResultAndEndTimeMatchStatus ==
    \A j \in JobIds :
        InMap(j) =>
            /\ (activeJobs[j].outputPath \notin {"absent", "null"})
                   <=> (activeJobs[j].status = "completed")
            /\ activeJobs[j].status = "completed" => activeJobs[j].progress = 100
            /\ (activeJobs[j].endTime = "set")
                   <=> (activeJobs[j].status \in {"completed", "error"})

\* C36: an accepted resume passes to matching as many assignments as the
\* job's original keyword data holds, in the same order, the i-th with the
\* segment (start, end, text) of the i-th original.
C36_ResumeKeepsSegments ==
    [][\A e \in ExecIds :
          (execs[e].pc = "free" /\ execs'[e].pc # "free" /\ execs'[e].kind = "continue")
              => LET original == activeJobs[execs'[e].job].keywordData
                     passed == execs'[e].keywordData
                 IN  /\ Len(passed) = Len(original)
                     /\ \A i \in 1..Len(passed) : passed[i].seg = original[i].seg]_vars

\* --------------------------------------------- slots of an asset, checked
\* The slots that start within the span of a matched meme, in the order they
\* were pushed.
C37_SlotsOf(meme) ==
    SelectSeq(expandedMemes,
              LAMBDA slot : slot.start >= meme.start /\ slot.start < meme.end)

\* C37: the slots of every expanded meme partition its span in ascending
\* order: the first starts at the meme's start, each ends where the next
\* starts, the last ends at the meme's end, and every slot has start < end.
C37_SlotsPartitionTheSpan ==
    \A a \in 1..Len(matchedMemes) :
        Expanded(a) =>
            LET slots == C37_SlotsOf(matchedMemes[a])
            IN  /\ Len(slots) >= 1
                /\ slots[1].start = matchedMemes[a].start
                /\ slots[Len(slots)].end = matchedMemes[a].end
                /\ \A k \in 1..(Len(slots) - 1) : slots[k].end = slots[k + 1].start
                /\ \A k \in 1..Len(slots) : slots[k].start < slots[k].end

\* C37 witness: the expansion is done and a meme was split into three slots.
C37_MemeInThreeSlots ==
    /\ xpc = "done"
    /\ \E a \in 1..Len(matchedMemes) : Len(C37_SlotsOf(matchedMemes[a])) = 3

\* ------------------------------------------------ stream polling, checked
\* C38: nothing is written to a response the close handler has ended; after
\* the subscriber has gone, and while the polled id has no job in the map,
\* the stream comes to schedule no further sendUpdate.
C38_PollingStops ==
    /\ [](~stream.lateWrite)
    /\ (stream.ended ~> ~stream.open)
    /\ ((stream.open /\ ~InMap(stream.job)) ~> (~stream.open \/ InMap(stream.job)))

C40_OnlyRunningJobsHooked ==
    \A i \in 1..Len(loggerInfo) :
        \E e \in ExecIds :
            /\ Running(e)
            /\ ~execs[e].settled
            /\ execs[e].job = loggerInfo[i].job
====
